---- MODULE Spec2Model ----
(***************************************************************************)
(* create-stack-app: the template composition engine (generateProject and  *)
(* its layer generators) and its two callers, createProject and            *)
(* testTemplate, over a file system of directories and files.              *)
(*                                                                         *)
(* A path is a sequence of segments.  The content of a file is a sequence  *)
(* of chunks, one per write that contributed to it (an appending write     *)
(* adds a chunk, a plain write replaces them all); a chunk names the       *)
(* function and the source variable that produced the text, followed by    *)
(* the inputs the text is built from.                                      *)
(***************************************************************************)
EXTENDS Integers, Sequences, FiniteSets, TLC

\* longest feature list a prompt or a caller supplies
MaxFeatures == 2

----------------------------------------------------------------------------
\* src/src/config/templates.js:1-135  the catalog (name and language fields)
templates ==
  ( "nextjs-saas"        :> [name |-> "Next.js 15 SaaS Starter",         language |-> "TypeScript"] ) @@
  ( "react-vite"         :> [name |-> "React + Vite Starter",            language |-> "TypeScript"] ) @@
  ( "node-express-api"   :> [name |-> "Node.js Express API",             language |-> "TypeScript"] ) @@
  ( "fastapi-modern"     :> [name |-> "FastAPI Modern Starter",          language |-> "Python"] ) @@
  ( "django-pro"         :> [name |-> "Django Professional",             language |-> "Python"] ) @@
  ( "flask-api"          :> [name |-> "Flask REST API",                  language |-> "Python"] ) @@
  ( "rust-axum"          :> [name |-> "Rust Axum Web Service",           language |-> "Rust"] ) @@
  ( "rust-fullstack"     :> [name |-> "Rust Full-Stack (Axum + Leptos)", language |-> "Rust"] ) @@
  ( "go-fiber"           :> [name |-> "Go Fiber Web API",                language |-> "Go"] ) @@
  ( "go-htmx"            :> [name |-> "Go + HTMX Hypermedia",            language |-> "Go"] ) @@
  ( "ai-saas-nextjs"     :> [name |-> "AI SaaS (Next.js + OpenAI)",      language |-> "TypeScript"] ) @@
  ( "python-ml-api"      :> [name |-> "Python ML API",                   language |-> "Python"] ) @@
  ( "react-native-expo"  :> [name |-> "React Native Expo",               language |-> "TypeScript"] ) @@
  ( "dotnet-minimal-api" :> [name |-> ".NET Minimal API",                language |-> "C#"] ) @@
  ( "elixir-phoenix"     :> [name |-> "Elixir Phoenix API",              language |-> "Elixir"] )

\* the value of templates[id] for an id that is no key of the catalog
undefined == [undefined |-> TRUE]

\* an id the catalog lacks is given the descriptor of the first stack
lookupTemplate_Default(templateId) ==
  IF templateId \in DOMAIN templates THEN templates[templateId]
  ELSE templates["nextjs-saas"]

\* src/src/commands/create.js:130  templates[selectedTemplate]
\* (src/test-template.js:14 reads the catalog the same way)
lookupTemplate(templateId) ==
  IF templateId \in DOMAIN templates THEN templates[templateId] ELSE undefined

\* src/src/commands/create.js:136-141  the checkbox choices, in display order
featureChoices == <<"docker", "ci", "linting", "testing", "hooks", "vscode">>

\* src/test-template.js:33  the feature list testTemplate passes
testFeatures == <<"docker", "ci", "vscode", "linting", "testing">>

\* the working directory of the process
cwd == <<"home", "cwd">>

\* project names given on the command line or typed at the prompt; the
\* command line takes any text (src/src/index.js:31), also the parent
\* directory
ProjectNames == {"x", "my-app", ".."}

\* the names of the runs of the new command: also one with a capital
CliNames == ProjectNames \cup {"App"}

\* template ids a caller may pass: the catalog and one id outside it
TemplateArgs == DOMAIN templates \cup {"no-such-stack"}

Range(s) == {s[i] : i \in DOMAIN s}

\* Array.prototype.includes
Includes(list, x) == x \in Range(list)

\* the part of a text that depends on features.includes(key)
Flag(features, key) == IF Includes(features, key) THEN key ELSE ""

\* the answers of the features checkbox: the checked values in display order
PromptedFeatures ==
  { [i \in 1..Len(ix) |-> featureChoices[ix[i]]] :
      ix \in { s \in UNION { [1..n -> DOMAIN featureChoices] : n \in 0..MaxFeatures } :
                 \A i, j \in DOMAIN s : i < j => s[i] < s[j] } }

\* the feature lists a program calling generateProject may pass: any order
CallerFeatures ==
  { s \in UNION { [1..n -> Range(featureChoices)] : n \in 0..MaxFeatures } :
      \A i, j \in DOMAIN s : i # j => s[i] # s[j] }

----------------------------------------------------------------------------
\* the indexes of the catalog and the selection prompts

\* src/src/config/templates.js:146-153  languages, in key order
languages ==
  << [language |-> "TypeScript",
      templateIds |-> <<"nextjs-saas", "react-vite", "node-express-api",
                        "ai-saas-nextjs", "react-native-expo">>],
     [language |-> "Python",
      templateIds |-> <<"fastapi-modern", "django-pro", "flask-api", "python-ml-api">>],
     [language |-> "Rust",   templateIds |-> <<"rust-axum", "rust-fullstack">>],
     [language |-> "Go",     templateIds |-> <<"go-fiber", "go-htmx">>],
     [language |-> "C#",     templateIds |-> <<"dotnet-minimal-api">>],
     [language |-> "Elixir", templateIds |-> <<"elixir-phoenix">>] >>

\* src/src/config/templates.js:137-144  categories
categories ==
  ( "frontend"  :> <<"react-vite", "nextjs-saas">> ) @@
  ( "backend"   :> <<"node-express-api", "fastapi-modern", "django-pro",
                     "flask-api", "go-fiber", "rust-axum">> ) @@
  ( "fullstack" :> <<"nextjs-saas", "rust-fullstack", "go-htmx", "elixir-phoenix">> ) @@
  ( "ai"        :> <<"ai-saas-nextjs", "python-ml-api">> ) @@
  ( "mobile"    :> <<"react-native-expo">> ) @@
  ( "api"       :> <<"node-express-api", "fastapi-modern", "go-fiber", "rust-axum",
                     "dotnet-minimal-api">> )

\* src/src/commands/create.js:37-41  the values of the selection-method prompt
selectionMethods == {"language", "category", "all"}

\* the category prompt also offers the api category
categoryChoices_WithApi == {"frontend", "backend", "fullstack", "ai", "mobile", "api"}

\* src/src/commands/create.js:82-88  the values of the category prompt
categoryChoices == {"frontend", "backend", "fullstack", "ai", "mobile"}

\* src/src/commands/create.js:48-125  the template ids the last selection
\* prompt lists, for each way of reaching it
templateChoices(selectionMethod) ==
  CASE selectionMethod = "language" ->
         UNION { Range(languages[i].templateIds) : i \in DOMAIN languages }
    [] selectionMethod = "category" ->
         UNION { Range(categories[c]) : c \in categoryChoices }
    [] OTHER -> DOMAIN templates

\* the list command leaves out the last language
listTemplates_DropLast ==
  LET RECURSIVE flat(_)
      flat(i) == IF i >= Len(languages) THEN <<>>
                 ELSE languages[i].templateIds \o flat(i + 1)
  IN  flat(1)

\* src/src/commands/list.js:11-35  the ids listTemplates prints, in order:
\* every id of every language list
listTemplates ==
  LET RECURSIVE flat(_)
      flat(i) == IF i > Len(languages) THEN <<>>
                 ELSE languages[i].templateIds \o flat(i + 1)
  IN  flat(1)

\* the characters of the project names of the model
chars(s) ==
  CASE s = "x"      -> <<"x">>
    [] s = "my-app" -> <<"m", "y", "-", "a", "p", "p">>
    [] s = "App"    -> <<"A", "p", "p">>
    [] s = ".."     -> <<".", ".">>
    [] OTHER        -> <<>>

\* the prompt takes any name
validate_Any(input) == TRUE

\* src/src/commands/create.js:22-25  /^[a-z0-9-_]+$/.test(input)
validate(input) ==
  LET allowed == {"a", "b", "c", "d", "e", "f", "g", "h", "i", "j", "k", "l", "m",
                  "n", "o", "p", "q", "r", "s", "t", "u", "v", "w", "x", "y", "z",
                  "0", "1", "2", "3", "4", "5", "6", "7", "8", "9", "-", "_"}
  IN  /\ chars(input) # <<>>
      /\ \A i \in DOMAIN chars(input) : chars(input)[i] \in allowed

----------------------------------------------------------------------------
\* node:path and String helpers

\* path.normalize: "." segments drop, ".." removes the segment before it
RECURSIVE normalize(_)
normalize(p) ==
  IF p = <<>> THEN <<>>
  ELSE LET front == normalize(SubSeq(p, 1, Len(p) - 1))
           last  == p[Len(p)]
       IN  IF last = "." THEN front
           ELSE IF last = ".." /\ front # <<>> /\ front[Len(front)] # ".."
                THEN SubSeq(front, 1, Len(front) - 1)
                ELSE Append(front, last)

\* path.join
join(a, b) == normalize(a \o b)

\* the first segment of the path instead of the last
basename_First(p) == IF p = <<>> THEN "" ELSE p[1]

\* path.basename
basename(p) == IF p = <<>> THEN "" ELSE p[Len(p)]

\* path.dirname
dirname(p) == SubSeq(p, 1, Len(p) - 1)

\* String.prototype.replaceAll, on the project names of the model
replaceAll(s, from, to) ==
  IF s = "my-app" /\ from = "-" /\ to = "_" THEN "my_app"
  ELSE IF s = "my-app" /\ from = "-" /\ to = "" THEN "myapp"
  ELSE s

\* src/unnamed/part_016:4410  toLowerCase().replaceAll(/[^a-z0-9-]/g, '')
slug(s) == IF s = "App" THEN "app" ELSE s

\* src/unnamed/part_016:6264  snake_case to CamelCase
moduleName(s) ==
  IF s = "my_app" THEN "MyApp" ELSE IF s = "x" THEN "X"
  ELSE IF s = "home" THEN "Home" ELSE s

----------------------------------------------------------------------------
\* file-system requests a generator issues (fs-extra)

ensureDir(p)        == [op |-> "ensureDir",  path |-> p, data |-> <<>>]
writeFile(p, data)  == [op |-> "writeFile",  path |-> p, data |-> data]
\* fs.writeFile(path, data, { flag: 'a' })
appendFile(p, data) == [op |-> "appendFile", path |-> p, data |-> data]

----------------------------------------------------------------------------
\* the language profile

\* src/unnamed/part_016:900-910
getInstallCommand(language) ==
  CASE language \in {"TypeScript", "JavaScript"} -> "npm install"
    [] language = "Python" -> "python -m venv venv; pip install -r requirements.txt"
    [] language = "Rust"   -> "cargo build"
    [] language = "Go"     -> "go mod download"
    [] OTHER               -> "See documentation"

\* a table without the || fallback: a language with no entry prints as
\* undefined
getRunCommand_NoFallback(language) ==
  CASE language \in {"TypeScript", "JavaScript"} -> "npm run dev"
    [] language = "Python" -> "python main.py"
    [] language = "Rust"   -> "cargo run"
    [] language = "Go"     -> "go run main.go"
    [] OTHER               -> "undefined"

\* src/unnamed/part_016:912-922
getRunCommand(language) ==
  CASE language \in {"TypeScript", "JavaScript"} -> "npm run dev"
    [] language = "Python" -> "python main.py"
    [] language = "Rust"   -> "cargo run"
    [] language = "Go"     -> "go run main.go"
    [] OTHER               -> "# See documentation"

\* src/unnamed/part_016:924-933
getTestCommand(language) ==
  CASE language \in {"TypeScript", "JavaScript"} -> "npm test"
    [] language = "Python" -> "pytest"
    [] language = "Rust"   -> "cargo test"
    [] language = "Go"     -> "go test ./..."
    [] OTHER               -> "# See documentation"

\* src/unnamed/part_016:1022-1050
generateProjectStructure(language) ==
  IF language \in {"TypeScript", "Python", "Rust", "Go"}
  THEN "structure:" \o language
  ELSE "See documentation for project structure"

----------------------------------------------------------------------------
\* the common layer and the feature layers

\* src/unnamed/part_016:935-1020
generateReadme(projectPath, templateConfig, features) ==
  LET projName == basename(projectPath)
      readme == <<"generateReadme", "readme", projName,
                  templateConfig.name, templateConfig.language,
                  getInstallCommand(templateConfig.language),
                  getRunCommand(templateConfig.language),
                  generateProjectStructure(templateConfig.language),
                  getTestCommand(templateConfig.language),
                  "additionalFeatures">> \o features
                  \o <<"dockerSection", Flag(features, "docker")>>
  IN  << writeFile(join(projectPath, <<"README.md">>), readme) >>

\* src/unnamed/part_016:1052-1087
generateGitignore(projectPath, language) ==
  LET entry == IF language \in {"TypeScript", "Python", "Rust", "Go"}
               THEN language ELSE "default"
  IN  << writeFile(join(projectPath, <<".gitignore">>),
                   <<"generateGitignore", "gitignoreContent", entry>>) >>

\* a container table without the || fallback
generateDockerFiles_NoFallback(projectPath, language) ==
  LET entry == IF language \in {"TypeScript", "Python", "Rust", "Go"}
               THEN language ELSE "undefined"
  IN  << writeFile(join(projectPath, <<"Dockerfile">>),
                   <<"generateDockerFiles", "dockerfiles", entry>>),
         writeFile(join(projectPath, <<"docker-compose.yml">>),
                   <<"generateDockerFiles", "dockerCompose">>) >>

\* src/unnamed/part_016:1089-1174
generateDockerFiles(projectPath, language) ==
  LET entry == IF language \in {"TypeScript", "Python", "Rust", "Go"}
               THEN language ELSE "TypeScript"
  IN  << writeFile(join(projectPath, <<"Dockerfile">>),
                   <<"generateDockerFiles", "dockerfiles", entry>>),
         writeFile(join(projectPath, <<"docker-compose.yml">>),
                   <<"generateDockerFiles", "dockerCompose">>) >>

\* src/unnamed/part_016:1176-1209
generateGitHubActions(projectPath, language) ==
  << ensureDir(join(projectPath, <<".github", "workflows">>)),
     writeFile(join(projectPath, <<".github", "workflows", "ci.yml">>),
               <<"generateGitHubActions", "workflow">>) >>

\* src/unnamed/part_016:1211-1225
generateVSCodeSettings(projectPath, language) ==
  << ensureDir(join(projectPath, <<".vscode">>)),
     writeFile(join(projectPath, <<".vscode", "settings.json">>),
               <<"generateVSCodeSettings", "settings">>) >>

\* the project file is written beside the target directory
generateDotNetMinimalAPI_Beside(projectPath, features) ==
  << writeFile(join(projectPath, <<"..", basename(projectPath) \o ".csproj">>),
               <<"generateDotNetMinimalAPI", "csproj">>) >>

\* a fallback that writes nothing
generateBasicStructure_Nothing(projectPath, templateConfig) == <<>>

----------------------------------------------------------------------------
\* the stack-specific generators: the fs calls of each, in program order

\* src/unnamed/part_016:1228-1507  generateNextJsSaas: its fs calls, in program order
generateNextJsSaas(projectPath, features) ==
  LET base == basename(projectPath)
      snake == replaceAll(base, "-", "_")
  IN
  << ensureDir(join(projectPath, <<"src", "app">>)),
     ensureDir(join(projectPath, <<"src", "components">>)),
     ensureDir(join(projectPath, <<"src", "lib">>)),
     writeFile(join(projectPath, <<"package.json">>), <<"generateNextJsSaas", "packageJson", base, Flag(features, "linting"), Flag(features, "testing")>>),
     writeFile(join(projectPath, <<"tsconfig.json">>), <<"generateNextJsSaas", "tsConfig">>),
     writeFile(join(projectPath, <<"next.config.js">>), <<"generateNextJsSaas", "nextConfig">>),
     writeFile(join(projectPath, <<"tailwind.config.js">>), <<"generateNextJsSaas", "tailwindConfig">>),
     writeFile(join(projectPath, <<"postcss.config.js">>), <<"generateNextJsSaas", "postcssConfig">>),
     writeFile(join(projectPath, <<"src", "app", "layout.tsx">>), <<"generateNextJsSaas", "layout">>),
     writeFile(join(projectPath, <<"src", "app", "globals.css">>), <<"generateNextJsSaas", "globalsCss">>),
     writeFile(join(projectPath, <<"src", "app", "page.tsx">>), <<"generateNextJsSaas", "page">>),
     writeFile(join(projectPath, <<".env.example">>), <<"generateNextJsSaas", "envExample">>),
     writeFile(join(projectPath, <<".env.local">>), <<"generateNextJsSaas", "envExample">>),
     writeFile(join(projectPath, <<"src", "lib", "supabase.ts">>), <<"generateNextJsSaas", "supabaseClient">>),
     appendFile(join(projectPath, <<".gitignore">>), <<"generateNextJsSaas", "gitignore">>) >>

\* src/unnamed/part_016:1508-1766  generateReactVite: its fs calls, in program order
generateReactVite(projectPath, features) ==
  LET base == basename(projectPath)
      snake == replaceAll(base, "-", "_")
  IN
  << writeFile(join(projectPath, <<"package.json">>), <<"generateReactVite", "packageJson", base, Flag(features, "linting"), Flag(features, "testing")>>),
     writeFile(join(projectPath, <<"vite.config.js">>), <<"generateReactVite", "viteConfig">>),
     writeFile(join(projectPath, <<"tsconfig.json">>), <<"generateReactVite", "tsConfig">>),
     writeFile(join(projectPath, <<"tsconfig.node.json">>), <<"generateReactVite", "tsConfigNode">>),
     ensureDir(join(projectPath, <<"src">>)),
     writeFile(join(projectPath, <<"src", "main.tsx">>), <<"generateReactVite", "mainTsx">>),
     writeFile(join(projectPath, <<"src", "App.tsx">>), <<"generateReactVite", "appTsx">>),
     writeFile(join(projectPath, <<"src", "index.css">>), <<"generateReactVite", "indexCss">>),
     writeFile(join(projectPath, <<"src", "App.css">>), <<"generateReactVite", "appCss">>),
     writeFile(join(projectPath, <<"index.html">>), <<"generateReactVite", "indexHtml">>),
     writeFile(join(projectPath, <<".env.example">>), <<"generateReactVite", "envExample">>) >>

\* src/unnamed/part_016:1767-2052  generateNodeExpressAPI: its fs calls, in program order
generateNodeExpressAPI(projectPath, features) ==
  LET base == basename(projectPath)
      snake == replaceAll(base, "-", "_")
  IN
  << ensureDir(join(projectPath, <<"src">>)),
     writeFile(join(projectPath, <<"package.json">>), <<"generateNodeExpressAPI", "packageJson", base, Flag(features, "linting"), Flag(features, "testing")>>),
     writeFile(join(projectPath, <<"tsconfig.json">>), <<"generateNodeExpressAPI", "tsConfig">>),
     writeFile(join(projectPath, <<".env.example">>), <<"generateNodeExpressAPI", "envExample">>),
     writeFile(join(projectPath, <<".env">>), <<"generateNodeExpressAPI", "envExample">>),
     writeFile(join(projectPath, <<"src", "index.js">>), <<"generateNodeExpressAPI", "mainFile">>),
     ensureDir(join(projectPath, <<"src", "middleware">>)),
     writeFile(join(projectPath, <<"src", "middleware", "auth.js">>), <<"generateNodeExpressAPI", "authMiddleware">>),
     ensureDir(join(projectPath, <<"src", "routes">>)),
     writeFile(join(projectPath, <<"src", "routes", "users.js">>), <<"generateNodeExpressAPI", "usersRoute">>),
     ensureDir(join(projectPath, <<"src", "config">>)),
     writeFile(join(projectPath, <<"src", "config", "database.js">>), <<"generateNodeExpressAPI", "dbConfig">>),
     ensureDir(join(projectPath, <<"prisma">>)),
     writeFile(join(projectPath, <<"prisma", "schema.prisma">>), <<"generateNodeExpressAPI", "prismaSchema">>),
     appendFile(join(projectPath, <<".gitignore">>), <<"generateNodeExpressAPI", "gitignoreContent">>) >>

\* src/unnamed/part_016:2053-2213  generateFastAPI: its fs calls, in program order
generateFastAPI(projectPath, features) ==
  LET base == basename(projectPath)
      snake == replaceAll(base, "-", "_")
  IN
  << writeFile(join(projectPath, <<"requirements.txt">>), <<"generateFastAPI", "requirementsTxt">>),
     ensureDir(join(projectPath, <<"src", "api", "v1", "endpoints">>)),
     ensureDir(join(projectPath, <<"src", "core">>)),
     ensureDir(join(projectPath, <<"src", "db">>)),
     ensureDir(join(projectPath, <<"tests">>)),
     writeFile(join(projectPath, <<"main.py">>), <<"generateFastAPI", "mainPy", base>>),
     writeFile(join(projectPath, <<"src", "core", "config.py">>), <<"generateFastAPI", "configPy", snake>>),
     writeFile(join(projectPath, <<"src", "__init__.py">>), <<"generateFastAPI", "''">>),
     writeFile(join(projectPath, <<"src", "core", "__init__.py">>), <<"generateFastAPI", "''">>),
     writeFile(join(projectPath, <<"src", "db", "__init__.py">>), <<"generateFastAPI", "''">>),
     writeFile(join(projectPath, <<"src", "api", "__init__.py">>), <<"generateFastAPI", "''">>),
     writeFile(join(projectPath, <<"src", "api", "v1", "__init__.py">>), <<"generateFastAPI", "''">>),
     writeFile(join(projectPath, <<"src", "api", "v1", "endpoints", "__init__.py">>), <<"generateFastAPI", "''">>),
     writeFile(join(projectPath, <<"tests", "__init__.py">>), <<"generateFastAPI", "''">>),
     writeFile(join(projectPath, <<"src", "api", "v1", "api.py">>), <<"generateFastAPI", "apiRouterPy">>),
     writeFile(join(projectPath, <<"src", "api", "v1", "endpoints", "health.py">>), <<"generateFastAPI", "healthEndpointPy">>),
     writeFile(join(projectPath, <<".env.example">>), <<"generateFastAPI", "envExample", snake>>),
     writeFile(join(projectPath, <<".env">>), <<"generateFastAPI", "envExample", snake>>),
     writeFile(join(projectPath, <<"pytest.ini">>), <<"generateFastAPI", "pytestIni">>) >>

\* src/unnamed/part_016:2214-2542  generateRustAxum: its fs calls, in program order
generateRustAxum(projectPath, features) ==
  LET base == basename(projectPath)
      snake == replaceAll(base, "-", "_")
  IN
  << writeFile(join(projectPath, <<"Cargo.toml">>), <<"generateRustAxum", "cargoToml", snake>>),
     ensureDir(join(projectPath, <<"src", "handlers">>)),
     ensureDir(join(projectPath, <<"src", "models">>)),
     ensureDir(join(projectPath, <<"src", "middleware">>)),
     writeFile(join(projectPath, <<"src", "main.rs">>), <<"generateRustAxum", "mainRs">>),
     writeFile(join(projectPath, <<"src", "error.rs">>), <<"generateRustAxum", "errorRs">>),
     writeFile(join(projectPath, <<"src", "models", "mod.rs">>), <<"generateRustAxum", "modelsRs">>),
     writeFile(join(projectPath, <<"src", "handlers", "mod.rs">>), <<"generateRustAxum", "handlersRs">>),
     writeFile(join(projectPath, <<"src", "middleware", "mod.rs">>), <<"generateRustAxum", "middlewareRs">>),
     writeFile(join(projectPath, <<"README.md">>), <<"generateRustAxum", "readmeMd">>),
     writeFile(join(projectPath, <<".gitignore">>), <<"generateRustAxum", "gitignore">>),
     writeFile(join(projectPath, <<"Dockerfile">>), <<"generateRustAxum", "dockerfile">>),
     writeFile(join(projectPath, <<"docker-compose.yml">>), <<"generateRustAxum", "dockerCompose">>) >>

\* src/unnamed/part_016:2543-3038  generateRustFullStack: its fs calls, in program order
generateRustFullStack(projectPath, features) ==
  LET base == basename(projectPath)
      snake == replaceAll(base, "-", "_")
  IN
  << writeFile(join(projectPath, <<"Cargo.toml">>), <<"generateRustFullStack", "workspaceCargoToml">>),
     ensureDir(join(projectPath, <<"backend", "src">>)),
     writeFile(join(projectPath, <<"backend", "Cargo.toml">>), <<"generateRustFullStack", "backendCargoToml">>),
     writeFile(join(projectPath, <<"backend", "src", "main.rs">>), <<"generateRustFullStack", "backendMainRs">>),
     ensureDir(join(projectPath, <<"backend", "src", "models">>)),
     writeFile(join(projectPath, <<"backend", "src", "models", "mod.rs">>), <<"generateRustFullStack", "backendModelsRs">>),
     ensureDir(join(projectPath, <<"backend", "src", "handlers">>)),
     writeFile(join(projectPath, <<"backend", "src", "handlers", "mod.rs">>), <<"generateRustFullStack", "backendHandlersRs">>),
     ensureDir(join(projectPath, <<"backend", "src", "api">>)),
     writeFile(join(projectPath, <<"backend", "src", "api", "mod.rs">>), <<"generateRustFullStack", "backendApiRs">>),
     ensureDir(join(projectPath, <<"frontend", "src">>)),
     writeFile(join(projectPath, <<"frontend", "Cargo.toml">>), <<"generateRustFullStack", "frontendCargoToml">>),
     writeFile(join(projectPath, <<"frontend", "src", "lib.rs">>), <<"generateRustFullStack", "frontendLibRs">>),
     writeFile(join(projectPath, <<"frontend", "index.html">>), <<"generateRustFullStack", "indexHtml">>),
     ensureDir(join(projectPath, <<"public">>)),
     writeFile(join(projectPath, <<"public", "style.css">>), <<"generateRustFullStack", "styleCss">>),
     writeFile(join(projectPath, <<"README.md">>), <<"generateRustFullStack", "readmeMd">>),
     writeFile(join(projectPath, <<".gitignore">>), <<"generateRustFullStack", "gitignore">>),
     writeFile(join(projectPath, <<"Dockerfile">>), <<"generateRustFullStack", "dockerfile">>),
     writeFile(join(projectPath, <<"docker-compose.yml">>), <<"generateRustFullStack", "dockerCompose">>),
     writeFile(join(projectPath, <<".env.example">>), <<"generateRustFullStack", "envExample">>),
     writeFile(join(projectPath, <<".env">>), <<"generateRustFullStack", "envExample">>) >>

\* src/unnamed/part_016:3039-3506  generateGoFiber: its fs calls, in program order
generateGoFiber(projectPath, features) ==
  LET base == basename(projectPath)
      snake == replaceAll(base, "-", "_")
  IN
  << writeFile(join(projectPath, <<"go.mod">>), <<"generateGoFiber", "goMod", base>>),
     ensureDir(join(projectPath, <<"handlers">>)),
     ensureDir(join(projectPath, <<"models">>)),
     ensureDir(join(projectPath, <<"middleware">>)),
     ensureDir(join(projectPath, <<"config">>)),
     writeFile(join(projectPath, <<"main.go">>), <<"generateGoFiber", "mainGo">>),
     ensureDir(join(projectPath, <<"models">>)),
     writeFile(join(projectPath, <<"models", "models.go">>), <<"generateGoFiber", "modelsGo">>),
     writeFile(join(projectPath, <<"handlers", "handlers.go">>), <<"generateGoFiber", "handlersGo">>),
     writeFile(join(projectPath, <<"middleware", "middleware.go">>), <<"generateGoFiber", "middlewareGo">>),
     writeFile(join(projectPath, <<"config", "config.go">>), <<"generateGoFiber", "configGo">>),
     writeFile(join(projectPath, <<".env.example">>), <<"generateGoFiber", "envExample">>),
     writeFile(join(projectPath, <<".env">>), <<"generateGoFiber", "envExample">>),
     writeFile(join(projectPath, <<"README.md">>), <<"generateGoFiber", "readmeMd">>),
     writeFile(join(projectPath, <<".gitignore">>), <<"generateGoFiber", "gitignore">>),
     writeFile(join(projectPath, <<"Dockerfile">>), <<"generateGoFiber", "dockerfile">>),
     writeFile(join(projectPath, <<"docker-compose.yml">>), <<"generateGoFiber", "dockerCompose">>) >>

\* src/unnamed/part_016:3507-3939  generateGoHTMX: its fs calls, in program order
generateGoHTMX(projectPath, features) ==
  LET base == basename(projectPath)
      snake == replaceAll(base, "-", "_")
  IN
  << writeFile(join(projectPath, <<"go.mod">>), <<"generateGoHTMX", "goMod", base>>),
     ensureDir(join(projectPath, <<"handlers">>)),
     ensureDir(join(projectPath, <<"models">>)),
     ensureDir(join(projectPath, <<"middleware">>)),
     ensureDir(join(projectPath, <<"views">>)),
     ensureDir(join(projectPath, <<"static">>)),
     writeFile(join(projectPath, <<"main.go">>), <<"generateGoHTMX", "mainGo">>),
     writeFile(join(projectPath, <<"models", "models.go">>), <<"generateGoHTMX", "modelsGo">>),
     writeFile(join(projectPath, <<"handlers", "handlers.go">>), <<"generateGoHTMX", "handlersGo">>),
     writeFile(join(projectPath, <<"views", "views.templ">>), <<"generateGoHTMX", "viewsTempl">>),
     writeFile(join(projectPath, <<"static", "style.css">>), <<"generateGoHTMX", "tailwindCss">>),
     writeFile(join(projectPath, <<".env.example">>), <<"generateGoHTMX", "envExample">>),
     writeFile(join(projectPath, <<".env">>), <<"generateGoHTMX", "envExample">>),
     writeFile(join(projectPath, <<"README.md">>), <<"generateGoHTMX", "readmeMd", base>>),
     writeFile(join(projectPath, <<".gitignore">>), <<"generateGoHTMX", "gitignore">>),
     writeFile(join(projectPath, <<"Dockerfile">>), <<"generateGoHTMX", "dockerfile">>),
     writeFile(join(projectPath, <<"docker-compose.yml">>), <<"generateGoHTMX", "dockerCompose">>) >>

\* src/unnamed/part_016:3940-4357  generateAISaaS: its fs calls, in program order
generateAISaaS(projectPath, features) ==
  LET base == basename(projectPath)
      snake == replaceAll(base, "-", "_")
  IN
  << ensureDir(join(projectPath, <<"src", "app", "api", "chat">>)),
     ensureDir(join(projectPath, <<"src", "components">>)),
     ensureDir(join(projectPath, <<"src", "lib">>)),
     ensureDir(join(projectPath, <<"src", "hooks">>)),
     writeFile(join(projectPath, <<"package.json">>), <<"generateAISaaS", "packageJson", base, Flag(features, "linting"), Flag(features, "testing")>>),
     writeFile(join(projectPath, <<"tsconfig.json">>), <<"generateAISaaS", "tsConfig">>),
     writeFile(join(projectPath, <<"next.config.js">>), <<"generateAISaaS", "nextConfig">>),
     writeFile(join(projectPath, <<"tailwind.config.js">>), <<"generateAISaaS", "tailwindConfig">>),
     writeFile(join(projectPath, <<"postcss.config.js">>), <<"generateAISaaS", "postcssConfig">>),
     writeFile(join(projectPath, <<"src", "app", "layout.tsx">>), <<"generateAISaaS", "layout">>),
     writeFile(join(projectPath, <<"src", "app", "globals.css">>), <<"generateAISaaS", "globalsCss">>),
     writeFile(join(projectPath, <<"src", "app", "page.tsx">>), <<"generateAISaaS", "page">>),
     writeFile(join(projectPath, <<"src", "app", "api", "chat", "route.ts">>), <<"generateAISaaS", "chatRoute">>),
     writeFile(join(projectPath, <<"src", "lib", "openai.ts">>), <<"generateAISaaS", "openaiClient">>),
     writeFile(join(projectPath, <<".env.example">>), <<"generateAISaaS", "envExample">>),
     writeFile(join(projectPath, <<".env.local">>), <<"generateAISaaS", "envExample">>),
     appendFile(join(projectPath, <<".gitignore">>), <<"generateAISaaS", "gitignore">>) >>

\* src/unnamed/part_016:4358-4722  generateReactNativeExpo: its fs calls, in program order
generateReactNativeExpo(projectPath, features) ==
  LET base == basename(projectPath)
      snake == replaceAll(base, "-", "_")
  IN
  << writeFile(join(projectPath, <<"package.json">>), <<"generateReactNativeExpo", "packageJson", base, Flag(features, "linting"), Flag(features, "testing")>>),
     writeFile(join(projectPath, <<"app.json">>), <<"generateReactNativeExpo", "appJson", base, replaceAll(base, "-", ""), slug(base)>>),
     ensureDir(join(projectPath, <<"app">>)),
     ensureDir(join(projectPath, <<"app", "(tabs)">>)),
     ensureDir(join(projectPath, <<"src">>)),
     ensureDir(join(projectPath, <<"src", "lib">>)),
     ensureDir(join(projectPath, <<"src", "store">>)),
     ensureDir(join(projectPath, <<"src", "hooks">>)),
     ensureDir(join(projectPath, <<"src", "components">>)),
     ensureDir(join(projectPath, <<"assets">>)),
     writeFile(join(projectPath, <<"app", "_layout.tsx">>), <<"generateReactNativeExpo", "rootLayout">>),
     writeFile(join(projectPath, <<"app", "(tabs)", "_layout.tsx">>), <<"generateReactNativeExpo", "tabsLayout">>),
     writeFile(join(projectPath, <<"app", "(tabs)", "index.tsx">>), <<"generateReactNativeExpo", "homeScreen">>),
     writeFile(join(projectPath, <<"app", "(tabs)", "settings.tsx">>), <<"generateReactNativeExpo", "settingsScreen">>),
     writeFile(join(projectPath, <<"src", "store", "appStore.ts">>), <<"generateReactNativeExpo", "zustandStore">>),
     writeFile(join(projectPath, <<"src", "lib", "supabase.ts">>), <<"generateReactNativeExpo", "supabaseClient">>),
     writeFile(join(projectPath, <<"tsconfig.json">>), <<"generateReactNativeExpo", "tsConfig">>),
     writeFile(join(projectPath, <<".env.example">>), <<"generateReactNativeExpo", "envExample">>),
     writeFile(join(projectPath, <<".env.local">>), <<"generateReactNativeExpo", "envExample">>) >>

\* src/unnamed/part_016:4723-5091  generateDjangoPro: its fs calls, in program order
generateDjangoPro(projectPath, features) ==
  LET base == basename(projectPath)
      snake == replaceAll(base, "-", "_")
  IN
  << writeFile(join(projectPath, <<"requirements.txt">>), <<"generateDjangoPro", "requirementsTxt">>),
     ensureDir(join(projectPath, <<"config">>)),
     ensureDir(join(projectPath, <<"config", "settings">>)),
     ensureDir(join(projectPath, <<"apps", "api", "v1", "endpoints">>)),
     ensureDir(join(projectPath, <<"apps", "users">>)),
     ensureDir(join(projectPath, <<"apps", "core">>)),
     ensureDir(join(projectPath, <<"tests">>)),
     ensureDir(join(projectPath, <<"staticfiles">>)),
     ensureDir(join(projectPath, <<"media">>)),
     writeFile(join(projectPath, <<"manage.py">>), <<"generateDjangoPro", "managePy">>),
     writeFile(join(projectPath, <<"config", "__init__.py">>), <<"generateDjangoPro", "''">>),
     writeFile(join(projectPath, <<"config", "wsgi.py">>), <<"generateDjangoPro", "wsgiPy">>),
     writeFile(join(projectPath, <<"config", "asgi.py">>), <<"generateDjangoPro", "asgiPy">>),
     writeFile(join(projectPath, <<"config", "urls.py">>), <<"generateDjangoPro", "urlsPy">>),
     writeFile(join(projectPath, <<"config", "settings", "__init__.py">>), <<"generateDjangoPro", "''">>),
     writeFile(join(projectPath, <<"config", "settings", "base.py">>), <<"generateDjangoPro", "baseSettingsPy">>),
     writeFile(join(projectPath, <<"config", "settings", "development.py">>), <<"generateDjangoPro", "devSettingsPy">>),
     writeFile(join(projectPath, <<"config", "settings", "production.py">>), <<"generateDjangoPro", "prodSettingsPy">>),
     writeFile(join(projectPath, <<"apps", "__init__.py">>), <<"generateDjangoPro", "''">>),
     writeFile(join(projectPath, <<"apps", "users", "__init__.py">>), <<"generateDjangoPro", "''">>),
     writeFile(join(projectPath, <<"apps", "core", "__init__.py">>), <<"generateDjangoPro", "''">>),
     writeFile(join(projectPath, <<"apps", "api", "__init__.py">>), <<"generateDjangoPro", "''">>),
     writeFile(join(projectPath, <<"apps", "api", "v1", "__init__.py">>), <<"generateDjangoPro", "''">>),
     writeFile(join(projectPath, <<"apps", "api", "v1", "endpoints", "__init__.py">>), <<"generateDjangoPro", "''">>),
     writeFile(join(projectPath, <<"apps", "users", "models.py">>), <<"generateDjangoPro", "usersModelsPy">>),
     writeFile(join(projectPath, <<"apps", "users", "apps.py">>), <<"generateDjangoPro", "usersAppsPy">>),
     writeFile(join(projectPath, <<"apps", "api", "v1", "urls.py">>), <<"generateDjangoPro", "apiUrlsPy">>),
     writeFile(join(projectPath, <<"apps", "api", "v1", "endpoints", "health.py">>), <<"generateDjangoPro", "healthEndpointPy">>),
     writeFile(join(projectPath, <<".env.example">>), <<"generateDjangoPro", "envExample">>),
     writeFile(join(projectPath, <<".env">>), <<"generateDjangoPro", "envExample">>),
     writeFile(join(projectPath, <<"pytest.ini">>), <<"generateDjangoPro", "pytestIni">>),
     writeFile(join(projectPath, <<".gitignore">>), <<"generateDjangoPro", "gitignorePy">>) >>

\* src/unnamed/part_016:5092-5431  generateFlaskAPI: its fs calls, in program order
generateFlaskAPI(projectPath, features) ==
  LET base == basename(projectPath)
      snake == replaceAll(base, "-", "_")
  IN
  << writeFile(join(projectPath, <<"requirements.txt">>), <<"generateFlaskAPI", "requirementsTxt">>),
     ensureDir(join(projectPath, <<"app">>)),
     ensureDir(join(projectPath, <<"app", "api", "v1">>)),
     ensureDir(join(projectPath, <<"app", "models">>)),
     ensureDir(join(projectPath, <<"app", "schemas">>)),
     ensureDir(join(projectPath, <<"tests">>)),
     writeFile(join(projectPath, <<"app", "__init__.py">>), <<"generateFlaskAPI", "appInitPy">>),
     writeFile(join(projectPath, <<"config.py">>), <<"generateFlaskAPI", "configPy">>),
     writeFile(join(projectPath, <<"wsgi.py">>), <<"generateFlaskAPI", "wsgiPy">>),
     writeFile(join(projectPath, <<"manage.py">>), <<"generateFlaskAPI", "managePy">>),
     writeFile(join(projectPath, <<"app", "api", "__init__.py">>), <<"generateFlaskAPI", "''">>),
     writeFile(join(projectPath, <<"app", "api", "v1", "__init__.py">>), <<"generateFlaskAPI", "''">>),
     writeFile(join(projectPath, <<"app", "models", "__init__.py">>), <<"generateFlaskAPI", "''">>),
     writeFile(join(projectPath, <<"app", "schemas", "__init__.py">>), <<"generateFlaskAPI", "''">>),
     writeFile(join(projectPath, <<"app", "api", "v1", "__init__.py">>), <<"generateFlaskAPI", "apiV1InitPy">>),
     writeFile(join(projectPath, <<"app", "api", "v1", "health.py">>), <<"generateFlaskAPI", "healthBlueprintPy">>),
     writeFile(join(projectPath, <<"app", "models", "base.py">>), <<"generateFlaskAPI", "baseModelPy">>),
     writeFile(join(projectPath, <<".env.example">>), <<"generateFlaskAPI", "envExample">>),
     writeFile(join(projectPath, <<".env">>), <<"generateFlaskAPI", "envExample">>),
     writeFile(join(projectPath, <<"pytest.ini">>), <<"generateFlaskAPI", "pytestIni">>),
     writeFile(join(projectPath, <<"tests", "conftest.py">>), <<"generateFlaskAPI", "conftestPy">>),
     writeFile(join(projectPath, <<"tests", "test_health.py">>), <<"generateFlaskAPI", "testHealthPy">>),
     writeFile(join(projectPath, <<"run.py">>), <<"generateFlaskAPI", "runPy">>),
     writeFile(join(projectPath, <<".gitignore">>), <<"generateFlaskAPI", "gitignorePy">>) >>

\* src/unnamed/part_016:5432-5920  generatePythonMLAPI: its fs calls, in program order
generatePythonMLAPI(projectPath, features) ==
  LET base == basename(projectPath)
      snake == replaceAll(base, "-", "_")
  IN
  << writeFile(join(projectPath, <<"requirements.txt">>), <<"generatePythonMLAPI", "requirementsTxt">>),
     ensureDir(join(projectPath, <<"src", "api", "v1", "endpoints">>)),
     ensureDir(join(projectPath, <<"src", "core">>)),
     ensureDir(join(projectPath, <<"src", "ml", "models">>)),
     ensureDir(join(projectPath, <<"src", "ml", "preprocessing">>)),
     ensureDir(join(projectPath, <<"src", "db">>)),
     ensureDir(join(projectPath, <<"models">>)),
     ensureDir(join(projectPath, <<"tests">>)),
     writeFile(join(projectPath, <<"main.py">>), <<"generatePythonMLAPI", "mainPy">>),
     writeFile(join(projectPath, <<"src", "core", "config.py">>), <<"generatePythonMLAPI", "configPy">>),
     writeFile(join(projectPath, <<"src", "ml", "model_loader.py">>), <<"generatePythonMLAPI", "modelLoaderPy">>),
     writeFile(join(projectPath, <<"src", "ml", "preprocessing", "preprocessor.py">>), <<"generatePythonMLAPI", "preprocessingPy">>),
     writeFile(join(projectPath, <<"src", "__init__.py">>), <<"generatePythonMLAPI", "''">>),
     writeFile(join(projectPath, <<"src", "core", "__init__.py">>), <<"generatePythonMLAPI", "''">>),
     writeFile(join(projectPath, <<"src", "db", "__init__.py">>), <<"generatePythonMLAPI", "''">>),
     writeFile(join(projectPath, <<"src", "ml", "__init__.py">>), <<"generatePythonMLAPI", "''">>),
     writeFile(join(projectPath, <<"src", "ml", "models", "__init__.py">>), <<"generatePythonMLAPI", "''">>),
     writeFile(join(projectPath, <<"src", "ml", "preprocessing", "__init__.py">>), <<"generatePythonMLAPI", "''">>),
     writeFile(join(projectPath, <<"src", "api", "__init__.py">>), <<"generatePythonMLAPI", "''">>),
     writeFile(join(projectPath, <<"src", "api", "v1", "__init__.py">>), <<"generatePythonMLAPI", "''">>),
     writeFile(join(projectPath, <<"src", "api", "v1", "endpoints", "__init__.py">>), <<"generatePythonMLAPI", "''">>),
     writeFile(join(projectPath, <<"tests", "__init__.py">>), <<"generatePythonMLAPI", "''">>),
     writeFile(join(projectPath, <<"src", "api", "v1", "api.py">>), <<"generatePythonMLAPI", "apiRouterPy">>),
     writeFile(join(projectPath, <<"src", "api", "v1", "endpoints", "health.py">>), <<"generatePythonMLAPI", "healthEndpointPy">>),
     writeFile(join(projectPath, <<"src", "api", "v1", "endpoints", "predict.py">>), <<"generatePythonMLAPI", "predictEndpointPy">>),
     writeFile(join(projectPath, <<".env.example">>), <<"generatePythonMLAPI", "envExample">>),
     writeFile(join(projectPath, <<".env">>), <<"generatePythonMLAPI", "envExample">>),
     writeFile(join(projectPath, <<"pytest.ini">>), <<"generatePythonMLAPI", "pytestIni">>),
     writeFile(join(projectPath, <<"tests", "test_predict.py">>), <<"generatePythonMLAPI", "testPredictPy">>),
     writeFile(join(projectPath, <<".gitignore">>), <<"generatePythonMLAPI", "gitignorePy">>) >>

\* src/unnamed/part_016:5921-6260  generateDotNetMinimalAPI: its fs calls, in program order
generateDotNetMinimalAPI(projectPath, features) ==
  LET base == basename(projectPath)
      snake == replaceAll(base, "-", "_")
  IN
  << ensureDir(join(projectPath, <<"Models">>)),
     ensureDir(join(projectPath, <<"Handlers">>)),
     ensureDir(join(projectPath, <<"Services">>)),
     ensureDir(join(projectPath, <<"Data">>)),
     writeFile(join(projectPath, <<base \o ".csproj">>), <<"generateDotNetMinimalAPI", "csproj">>),
     writeFile(join(projectPath, <<"Program.cs">>), <<"generateDotNetMinimalAPI", "programCs">>),
     writeFile(join(projectPath, <<"Models", "Item.cs">>), <<"generateDotNetMinimalAPI", "itemMo">>),
     writeFile(join(projectPath, <<"Services", "IItemService.cs">>), <<"generateDotNetMinimalAPI", "itemServiceInterface">>),
     writeFile(join(projectPath, <<"Services", "ItemService.cs">>), <<"generateDotNetMinimalAPI", "itemService">>),
     writeFile(join(projectPath, <<"Data", "ItemDbContext.cs">>), <<"generateDotNetMinimalAPI", "dataContext">>),
     writeFile(join(projectPath, <<"README.md">>), <<"generateDotNetMinimalAPI", "readmeMd", base>>),
     writeFile(join(projectPath, <<".gitignore">>), <<"generateDotNetMinimalAPI", "gitignore">>),
     writeFile(join(projectPath, <<"Dockerfile">>), <<"generateDotNetMinimalAPI", "dockerfile", base>>) >>

\* src/unnamed/part_016:6261-6581  generateElixirPhoenix: its fs calls, in program order
generateElixirPhoenix(projectPath, features) ==
  LET base == basename(projectPath)
      snake == replaceAll(base, "-", "_")
  IN
  << ensureDir(join(projectPath, <<"lib", snake, "web">>)),
     ensureDir(join(projectPath, <<"lib", snake, "web", "channels">>)),
     ensureDir(join(projectPath, <<"lib", snake, "web", "controllers">>)),
     ensureDir(join(projectPath, <<"lib", snake, "web", "views">>)),
     ensureDir(join(projectPath, <<"priv", "repo", "migrations">>)),
     ensureDir(join(projectPath, <<"test">>)),
     writeFile(join(projectPath, <<"mix.exs">>), <<"generateElixirPhoenix", "mixExs", moduleName(snake), snake>>),
     writeFile(join(projectPath, <<"lib", snake, "application.ex">>), <<"generateElixirPhoenix", "applicationEx", moduleName(snake)>>),
     writeFile(join(projectPath, <<"lib", snake, "repo.ex">>), <<"generateElixirPhoenix", "repoEx", moduleName(snake), snake>>),
     writeFile(join(projectPath, <<"lib", snake, "web", "router.ex">>), <<"generateElixirPhoenix", "routerEx", moduleName(snake)>>),
     writeFile(join(projectPath, <<"lib", snake, "endpoint.ex">>), <<"generateElixirPhoenix", "endpointEx", moduleName(snake), snake>>),
     writeFile(join(projectPath, <<"lib", snake, "item.ex">>), <<"generateElixirPhoenix", "itemSchema", moduleName(snake)>>),
     writeFile(join(projectPath, <<"lib", snake, "items.ex">>), <<"generateElixirPhoenix", "contextEx", moduleName(snake)>>),
     writeFile(join(projectPath, <<"lib", snake, "web", "controllers", "controllers.ex">>), <<"generateElixirPhoenix", "controllerEx", moduleName(snake)>>),
     writeFile(join(projectPath, <<"README.md">>), <<"generateElixirPhoenix", "readmeMd", base, snake>>),
     writeFile(join(projectPath, <<".gitignore">>), <<"generateElixirPhoenix", "gitignore">>) >>

\* src/unnamed/part_016:6582-6590  generateBasicStructure: its fs calls, in program order
generateBasicStructure(projectPath, templateConfig) ==
  LET base == basename(projectPath)
      snake == replaceAll(base, "-", "_")
  IN
  << writeFile(join(projectPath, <<"SETUP.md">>), <<"generateBasicStructure", "literal">>) >>

\* src/unnamed/part_015:1230-1390  generateFastAPI: its fs calls, in program order
generateFastAPI_015(projectPath, features) ==
  LET base == basename(projectPath)
      snake == replaceAll(base, "-", "_")
  IN
  << writeFile(join(projectPath, <<"requirements.txt">>), <<"generateFastAPI_015", "requirementsTxt">>),
     ensureDir(join(projectPath, <<"src", "api", "v1", "endpoints">>)),
     ensureDir(join(projectPath, <<"src", "core">>)),
     ensureDir(join(projectPath, <<"src", "db">>)),
     ensureDir(join(projectPath, <<"tests">>)),
     writeFile(join(projectPath, <<"main.py">>), <<"generateFastAPI_015", "mainPy", base>>),
     writeFile(join(projectPath, <<"src", "core", "config.py">>), <<"generateFastAPI_015", "configPy">>),
     writeFile(join(projectPath, <<"src", "__init__.py">>), <<"generateFastAPI_015", "''">>),
     writeFile(join(projectPath, <<"src", "core", "__init__.py">>), <<"generateFastAPI_015", "''">>),
     writeFile(join(projectPath, <<"src", "db", "__init__.py">>), <<"generateFastAPI_015", "''">>),
     writeFile(join(projectPath, <<"src", "api", "__init__.py">>), <<"generateFastAPI_015", "''">>),
     writeFile(join(projectPath, <<"src", "api", "v1", "__init__.py">>), <<"generateFastAPI_015", "''">>),
     writeFile(join(projectPath, <<"src", "api", "v1", "endpoints", "__init__.py">>), <<"generateFastAPI_015", "''">>),
     writeFile(join(projectPath, <<"tests", "__init__.py">>), <<"generateFastAPI_015", "''">>),
     writeFile(join(projectPath, <<"src", "api", "v1", "api.py">>), <<"generateFastAPI_015", "apiRouterPy">>),
     writeFile(join(projectPath, <<"src", "api", "v1", "endpoints", "health.py">>), <<"generateFastAPI_015", "healthEndpointPy">>),
     writeFile(join(projectPath, <<".env.example">>), <<"generateFastAPI_015", "envExample">>),
     writeFile(join(projectPath, <<".env">>), <<"generateFastAPI_015", "envExample">>),
     writeFile(join(projectPath, <<"pytest.ini">>), <<"generateFastAPI_015", "pytestIni">>) >>

\* src/unnamed/part_015:1391-1424  generateRustAxum: its fs calls, in program order
generateRustAxum_015(projectPath, features) ==
  LET base == basename(projectPath)
      snake == replaceAll(base, "-", "_")
  IN
  << writeFile(join(projectPath, <<"Cargo.toml">>), <<"generateRustAxum_015", "cargoToml", snake>>),
     ensureDir(join(projectPath, <<"src">>)),
     writeFile(join(projectPath, <<"src", "main.rs">>), <<"generateRustAxum_015", "mainRs">>) >>

\* src/unnamed/part_015:1425-1458  generateGoFiber: its fs calls, in program order
generateGoFiber_015(projectPath, features) ==
  LET base == basename(projectPath)
      snake == replaceAll(base, "-", "_")
  IN
  << writeFile(join(projectPath, <<"go.mod">>), <<"generateGoFiber_015", "goMod", base>>),
     writeFile(join(projectPath, <<"main.go">>), <<"generateGoFiber_015", "mainGo">>) >>

\* src/unnamed/part_015:1459-1875  generateAISaaS: its fs calls, in program order
generateAISaaS_015(projectPath, features) ==
  LET base == basename(projectPath)
      snake == replaceAll(base, "-", "_")
  IN
  << ensureDir(join(projectPath, <<"src", "app", "api", "chat">>)),
     ensureDir(join(projectPath, <<"src", "components">>)),
     ensureDir(join(projectPath, <<"src", "lib">>)),
     ensureDir(join(projectPath, <<"src", "hooks">>)),
     writeFile(join(projectPath, <<"package.json">>), <<"generateAISaaS_015", "packageJson", base, Flag(features, "linting"), Flag(features, "testing")>>),
     writeFile(join(projectPath, <<"tsconfig.json">>), <<"generateAISaaS_015", "tsConfig">>),
     writeFile(join(projectPath, <<"next.config.js">>), <<"generateAISaaS_015", "nextConfig">>),
     writeFile(join(projectPath, <<"tailwind.config.js">>), <<"generateAISaaS_015", "tailwindConfig">>),
     writeFile(join(projectPath, <<"postcss.config.js">>), <<"generateAISaaS_015", "postcssConfig">>),
     writeFile(join(projectPath, <<"src", "app", "layout.tsx">>), <<"generateAISaaS_015", "layout">>),
     writeFile(join(projectPath, <<"src", "app", "globals.css">>), <<"generateAISaaS_015", "globalsCss">>),
     writeFile(join(projectPath, <<"src", "app", "page.tsx">>), <<"generateAISaaS_015", "page">>),
     writeFile(join(projectPath, <<"src", "app", "api", "chat", "route.ts">>), <<"generateAISaaS_015", "chatRoute">>),
     writeFile(join(projectPath, <<"src", "lib", "openai.ts">>), <<"generateAISaaS_015", "openaiClient">>),
     writeFile(join(projectPath, <<".env.example">>), <<"generateAISaaS_015", "envExample">>),
     writeFile(join(projectPath, <<".env.local">>), <<"generateAISaaS_015", "envExample">>),
     appendFile(join(projectPath, <<".gitignore">>), <<"generateAISaaS_015", "gitignore">>) >>

\* src/unnamed/part_015:1876-2240  generateReactNativeExpo: its fs calls, in program order
generateReactNativeExpo_015(projectPath, features) ==
  LET base == basename(projectPath)
      snake == replaceAll(base, "-", "_")
  IN
  << writeFile(join(projectPath, <<"package.json">>), <<"generateReactNativeExpo_015", "packageJson", base, Flag(features, "linting"), Flag(features, "testing")>>),
     writeFile(join(projectPath, <<"app.json">>), <<"generateReactNativeExpo_015", "appJson", base, slug(base)>>),
     ensureDir(join(projectPath, <<"app">>)),
     ensureDir(join(projectPath, <<"app", "(tabs)">>)),
     ensureDir(join(projectPath, <<"src">>)),
     ensureDir(join(projectPath, <<"src", "lib">>)),
     ensureDir(join(projectPath, <<"src", "store">>)),
     ensureDir(join(projectPath, <<"src", "hooks">>)),
     ensureDir(join(projectPath, <<"src", "components">>)),
     ensureDir(join(projectPath, <<"assets">>)),
     writeFile(join(projectPath, <<"app", "_layout.tsx">>), <<"generateReactNativeExpo_015", "rootLayout">>),
     writeFile(join(projectPath, <<"app", "(tabs)", "_layout.tsx">>), <<"generateReactNativeExpo_015", "tabsLayout">>),
     writeFile(join(projectPath, <<"app", "(tabs)", "index.tsx">>), <<"generateReactNativeExpo_015", "homeScreen">>),
     writeFile(join(projectPath, <<"app", "(tabs)", "settings.tsx">>), <<"generateReactNativeExpo_015", "settingsScreen">>),
     writeFile(join(projectPath, <<"src", "store", "appStore.ts">>), <<"generateReactNativeExpo_015", "zustandStore">>),
     writeFile(join(projectPath, <<"src", "lib", "supabase.ts">>), <<"generateReactNativeExpo_015", "supabaseClient">>),
     writeFile(join(projectPath, <<"tsconfig.json">>), <<"generateReactNativeExpo_015", "tsConfig">>),
     writeFile(join(projectPath, <<".env.example">>), <<"generateReactNativeExpo_015", "envExample">>),
     writeFile(join(projectPath, <<".env.local">>), <<"generateReactNativeExpo_015", "envExample">>) >>
----------------------------------------------------------------------------
\* the composition orchestrator

\* a dispatch with one more case, keyed by an id the catalog lacks
switchCases_Orphan ==
  { "nextjs-saas", "react-vite", "node-express-api", "fastapi-modern",
    "rust-axum", "rust-fullstack", "go-fiber", "go-htmx", "ai-saas-nextjs",
    "react-native-expo", "django-pro", "flask-api", "python-ml-api",
    "dotnet-minimal-api", "elixir-phoenix", "svelte-kit" }

\* src/unnamed/part_016:839-883  the case labels of the dispatch switch
switchCases ==
  { "nextjs-saas", "react-vite", "node-express-api", "fastapi-modern",
    "rust-axum", "rust-fullstack", "go-fiber", "go-htmx", "ai-saas-nextjs",
    "react-native-expo", "django-pro", "flask-api", "python-ml-api",
    "dotnet-minimal-api", "elixir-phoenix" }

\* src/unnamed/part_015:35-61  the case labels of the earlier copy's switch
switchCases_015 ==
  { "nextjs-saas", "react-vite", "node-express-api", "fastapi-modern",
    "rust-axum", "go-fiber", "ai-saas-nextjs", "react-native-expo",
    "django-pro" }

\* a dispatch in which every id takes the default branch
stackGenerator_AllFallback(projectPath, templateId, templateConfig, features) ==
  generateBasicStructure(projectPath, templateConfig)

\* src/unnamed/part_016:839-889  switch (templateId)
stackGenerator(projectPath, templateId, templateConfig, features) ==
  IF templateId \notin switchCases
  THEN generateBasicStructure(projectPath, templateConfig)
  ELSE CASE templateId = "nextjs-saas"        -> generateNextJsSaas(projectPath, features)
         [] templateId = "react-vite"         -> generateReactVite(projectPath, features)
         [] templateId = "node-express-api"   -> generateNodeExpressAPI(projectPath, features)
         [] templateId = "fastapi-modern"     -> generateFastAPI(projectPath, features)
         [] templateId = "rust-axum"          -> generateRustAxum(projectPath, features)
         [] templateId = "rust-fullstack"     -> generateRustFullStack(projectPath, features)
         [] templateId = "go-fiber"           -> generateGoFiber(projectPath, features)
         [] templateId = "go-htmx"            -> generateGoHTMX(projectPath, features)
         [] templateId = "ai-saas-nextjs"     -> generateAISaaS(projectPath, features)
         [] templateId = "react-native-expo"  -> generateReactNativeExpo(projectPath, features)
         [] templateId = "django-pro"         -> generateDjangoPro(projectPath, features)
         [] templateId = "flask-api"          -> generateFlaskAPI(projectPath, features)
         [] templateId = "python-ml-api"      -> generatePythonMLAPI(projectPath, features)
         [] templateId = "dotnet-minimal-api" -> generateDotNetMinimalAPI(projectPath, features)
         [] templateId = "elixir-phoenix"     -> generateElixirPhoenix(projectPath, features)
         [] OTHER                             -> generateBasicStructure(projectPath, templateConfig)

\* src/unnamed/part_015:34-66  switch (templateId) of the earlier copy
stackGenerator_015(projectPath, templateId, templateConfig, features) ==
  IF templateId \notin switchCases_015
  THEN generateBasicStructure(projectPath, templateConfig)
  ELSE CASE templateId = "nextjs-saas"        -> generateNextJsSaas(projectPath, features)
         [] templateId = "react-vite"         -> generateReactVite(projectPath, features)
         [] templateId = "node-express-api"   -> generateNodeExpressAPI(projectPath, features)
         [] templateId = "fastapi-modern"     -> generateFastAPI_015(projectPath, features)
         [] templateId = "rust-axum"          -> generateRustAxum_015(projectPath, features)
         [] templateId = "go-fiber"           -> generateGoFiber_015(projectPath, features)
         [] templateId = "ai-saas-nextjs"     -> generateAISaaS_015(projectPath, features)
         [] templateId = "react-native-expo"  -> generateReactNativeExpo_015(projectPath, features)
         [] templateId = "django-pro"         -> generateDjangoPro(projectPath, features)
         [] OTHER                             -> generateBasicStructure(projectPath, templateConfig)

\* the requests of one layer, each marked with the layer that issues it
Layer(layer, requests) ==
  [i \in 1..Len(requests) |->
     [layer |-> layer, op |-> requests[i].op, path |-> requests[i].path,
      data |-> requests[i].data]]

\* the feature layers run in the order the flags were supplied
RECURSIVE layersInFlagOrder(_, _, _)
layersInFlagOrder(projectPath, language, flags) ==
  IF flags = <<>> THEN <<>>
  ELSE (CASE Head(flags) = "docker" -> Layer("docker", generateDockerFiles(projectPath, language))
          [] Head(flags) = "ci"     -> Layer("ci", generateGitHubActions(projectPath, language))
          [] Head(flags) = "vscode" -> Layer("vscode", generateVSCodeSettings(projectPath, language))
          [] OTHER                  -> <<>>)
       \o layersInFlagOrder(projectPath, language, Tail(flags))

commonAndFeatureLayers_FlagOrder(projectPath, templateConfig, features) ==
  Layer("common", generateReadme(projectPath, templateConfig, features))
  \o Layer("common", generateGitignore(projectPath, templateConfig.language))
  \o layersInFlagOrder(projectPath, templateConfig.language, features)

\* the common files and the optional layers, the compose file of the
\* container layer made to depend on the 'ci' flag
commonAndFeatureLayers_Coupled(projectPath, templateConfig, features) ==
  Layer("common", generateReadme(projectPath, templateConfig, features))
  \o Layer("common", generateGitignore(projectPath, templateConfig.language))
  \o (IF Includes(features, "docker")
      THEN Layer("docker",
             << generateDockerFiles(projectPath, templateConfig.language)[1],
                writeFile(join(projectPath, <<"docker-compose.yml">>),
                          <<"generateDockerFiles", "dockerCompose",
                            Flag(features, "ci")>>) >>)
      ELSE <<>>)
  \o (IF Includes(features, "ci")
      THEN Layer("ci", generateGitHubActions(projectPath, templateConfig.language))
      ELSE <<>>)
  \o (IF Includes(features, "vscode")
      THEN Layer("vscode", generateVSCodeSettings(projectPath, templateConfig.language))
      ELSE <<>>)

\* the common files and the optional layers, the editor settings left out
commonAndFeatureLayers_NoVSCode(projectPath, templateConfig, features) ==
  Layer("common", generateReadme(projectPath, templateConfig, features))
  \o Layer("common", generateGitignore(projectPath, templateConfig.language))
  \o (IF Includes(features, "docker")
      THEN Layer("docker", generateDockerFiles(projectPath, templateConfig.language))
      ELSE <<>>)
  \o (IF Includes(features, "ci")
      THEN Layer("ci", generateGitHubActions(projectPath, templateConfig.language))
      ELSE <<>>)

\* src/unnamed/part_016:817-835  the common files and the optional layers
commonAndFeatureLayers(projectPath, templateConfig, features) ==
  Layer("common", generateReadme(projectPath, templateConfig, features))
  \o Layer("common", generateGitignore(projectPath, templateConfig.language))
  \o (IF Includes(features, "docker")
      THEN Layer("docker", generateDockerFiles(projectPath, templateConfig.language))
      ELSE <<>>)
  \o (IF Includes(features, "ci")
      THEN Layer("ci", generateGitHubActions(projectPath, templateConfig.language))
      ELSE <<>>)
  \o (IF Includes(features, "vscode")
      THEN Layer("vscode", generateVSCodeSettings(projectPath, templateConfig.language))
      ELSE <<>>)

\* src/unnamed/part_016:813-897  the fs requests of one call, in the order
\* the awaits issue them
generateProject(projectPath, templateId, templateConfig, features) ==
  commonAndFeatureLayers(projectPath, templateConfig, features)
  \o Layer("stack", stackGenerator(projectPath, templateId, templateConfig, features))

\* src/unnamed/part_015:8-75  the same, in the earlier copy
generateProject_015(projectPath, templateId, templateConfig, features) ==
  commonAndFeatureLayers(projectPath, templateConfig, features)
  \o Layer("stack", stackGenerator_015(projectPath, templateId, templateConfig, features))

----------------------------------------------------------------------------
\* the file system

Prefixes(p) == { SubSeq(p, 1, k) : k \in 1..Len(p) }

IsUnder(p, dir) == Len(p) >= Len(dir) /\ SubSeq(p, 1, Len(dir)) = dir

NoFiles == [p \in {} |-> <<>>]

\* fs.pathExists
pathExists(d, f, p) == p \in d \/ p \in DOMAIN f

\* whether the request succeeds: a directory cannot be made through a file,
\* a file needs its parent directory (ENOENT) and cannot replace a directory
Succeeds(d, f, req) ==
  IF req.op = "ensureDir"
  THEN Prefixes(req.path) \cap DOMAIN f = {}
  ELSE dirname(req.path) \in d /\ req.path \notin d

DirsAfter(d, req) ==
  IF req.op = "ensureDir" THEN d \cup Prefixes(req.path) ELSE d

\* a write that leaves an existing file as it is
FilesAfter_KeepExisting(f, req) ==
  IF req.op = "ensureDir" \/ req.path \in DOMAIN f THEN f
  ELSE [p \in DOMAIN f \cup {req.path} |->
          IF p = req.path THEN <<req.data>> ELSE f[p]]

FilesAfter(f, req) ==
  IF req.op = "ensureDir" THEN f
  ELSE LET old == IF req.op = "appendFile" /\ req.path \in DOMAIN f
                  THEN f[req.path] ELSE <<>>
       IN  [p \in DOMAIN f \cup {req.path} |->
              IF p = req.path THEN Append(old, req.data) ELSE f[p]]

----------------------------------------------------------------------------
VARIABLES
  engine,            \* the copy of the generators module in use
  caller,            \* who runs: createProject, testTemplate or an importing program
  pc,                \* where that caller stands
  finalProjectName,  \* the project name
  selectedTemplate,  \* the stack id
  features,          \* the feature list passed to generateProject
  dirs,              \* the directories that exist
  files,             \* the files that exist, with their content
  initial,           \* dirs and files when the process started
  gen,               \* generateProject: notcalled, running, done or failed
  todo,              \* the requests the running generateProject call has yet to issue
  log,               \* the requests generateProject completed, in order
  outcome,           \* how the caller ended
  error,             \* the error raised, if any
  install,           \* the dependency-install step
  returned,          \* the value the last finished call handed to its caller
  second,            \* a second generateProject call that runs at the same time
  argv,              \* the arguments of the new command: project name and options
  printed            \* what the command told the user, in order

vars == <<engine, caller, pc, finalProjectName, selectedTemplate, features,
          dirs, files, initial, gen, todo, log, outcome, error, install, returned,
          second, argv, printed>>

\* src/src/commands/create.js:178  path.join(process.cwd(), finalProjectName)
projectPath == join(cwd, <<finalProjectName>>)

templateConfig == lookupTemplate(selectedTemplate)

\* src/unnamed/part_016:813-897  generateProject has no return statement:
\* the awaited call yields undefined
generateProjectReturn == undefined

\* src/test-template.js:39-40  fs.readdir(testPath, { recursive: true })
\* without the directories: the files under the target, relative to it
readdirFiles ==
  { SubSeq(p, Len(projectPath) + 1, Len(p)) :
      p \in { q \in DOMAIN files : IsUnder(q, projectPath) } }

\* the content of every write also carries who made the call
plan_CallerStamped ==
  LET p == generateProject(projectPath, selectedTemplate, templateConfig, features)
  IN  [i \in DOMAIN p |-> [p[i] EXCEPT !.data = Append(@, caller)]]

\* the requests of a generateProject call with the caller's arguments
plan ==
  IF engine = "part_016"
  THEN generateProject(projectPath, selectedTemplate, templateConfig, features)
  ELSE generateProject_015(projectPath, selectedTemplate, templateConfig, features)

\* no second call
noSecond == [gen |-> "notcalled"]

\* what the target directory holds when the process starts
DiskStates == {"absent", "empty", "foreign"}

\* no command line yet; an absent name or option is the empty text
noArgv == [projectName |-> "", template |-> "", skipInstall |-> FALSE]

InitWith(engines, names) ==
  /\ engine \in engines
  /\ finalProjectName \in names
  /\ \E disk \in DiskStates :
       /\ dirs = Prefixes(cwd)
                 \cup (IF disk = "absent" THEN {} ELSE Prefixes(projectPath))
       /\ files = IF disk = "foreign"
                  THEN (join(projectPath, <<"notes.txt">>) :> << <<"foreign">> >>)
                  ELSE NoFiles
  /\ initial = [dirs |-> dirs, files |-> files]
  /\ caller = "none"
  /\ pc = "idle"
  /\ selectedTemplate = ""
  /\ features = <<>>
  /\ gen = "notcalled"
  /\ todo = <<>>
  /\ log = <<>>
  /\ outcome = "none"
  /\ error = "none"
  /\ install = "notrun"
  /\ returned = undefined
  /\ second = noSecond
  /\ argv = noArgv
  /\ printed = <<>>

InitOn(engines) == InitWith(engines, ProjectNames)

Init == InitOn({"part_016"})

\* an error leaves the running function: each caller handles it its own way
\* src/src/commands/create.js:222-229   catch: message, process.exit(1)
\* src/test-template.js:54-57           catch: return { success: false }
\* src/unnamed/part_016:892-896         catch: log, throw error
Throw(kind) ==
  /\ error' = kind
  /\ outcome' = "Error"
  /\ pc' = CASE caller = "createProject" -> "exited"
             [] caller = "testTemplate"  -> "returned"
             [] OTHER                    -> "thrown"
  /\ returned' = IF caller = "testTemplate"
                 THEN [success |-> FALSE, error |-> kind]
                 ELSE returned

\* the answer to the confirmation is reported and the run goes on
CreateProjectWith_CancelGoesOn(argvs, featureLists) ==
  /\ pc = "idle"
  /\ \E a \in argvs, m \in selectionMethods, f \in featureLists, confirm \in BOOLEAN :
       \E t \in templateChoices(m) :
         /\ a.projectName = finalProjectName
         /\ argv' = a
         /\ caller' = "createProject"
         /\ selectedTemplate' = t
         /\ features' = f
         /\ pc' = "pathExists"
         /\ outcome' = IF confirm THEN outcome ELSE "Cancelled"
  /\ UNCHANGED <<printed, second, returned, engine, finalProjectName, dirs, files,
                 initial, gen, todo, log, error, install>>

\* src/src/index.js:30-38 and src/src/commands/create.js:11-173  the new
\* command with its arguments, then the prompts up to the confirmation:
\* the name is asked only when the command line has none, and the prompt
\* takes only a name that validate accepts; the stack is chosen at the
\* prompts, by language, by category or from the whole catalog; no line of
\* createProject reads options.template
CreateProjectWith(argvs, featureLists) ==
  /\ pc = "idle"
  /\ \E a \in argvs, m \in selectionMethods, f \in featureLists, confirm \in BOOLEAN :
       \E t \in templateChoices(m) :
         /\ IF a.projectName = ""
            THEN validate(finalProjectName)
            ELSE a.projectName = finalProjectName
         /\ argv' = a
         /\ caller' = "createProject"
         /\ selectedTemplate' = t
         /\ features' = f
         /\ IF confirm
            THEN pc' = "pathExists" /\ outcome' = outcome /\ printed' = printed
            ELSE /\ pc' = "returned"
                 /\ outcome' = "Cancelled"
                 /\ printed' = Append(printed, "Project creation cancelled.")
  /\ UNCHANGED <<second, returned, engine, finalProjectName, dirs, files, initial, gen,
                 todo, log, error, install>>

\* the command lines of the runs without the template option: the name is
\* given as the argument
PlainArgv ==
  { [projectName |-> finalProjectName, template |-> "", skipInstall |-> s] :
      s \in BOOLEAN }

\* create-stack-app new <name> [--skip-install]
CreateProject == CreateProjectWith(PlainArgv, PromptedFeatures)

\* the guard passes whether or not the directory exists
PathExists_NoGuard ==
  /\ pc = "pathExists"
  /\ pc' = "ensureDir"
  /\ UNCHANGED <<argv, printed, second, returned, engine, caller, finalProjectName, selectedTemplate, features,
                 dirs, files, initial, gen, todo, log, outcome, error, install>>

\* src/src/commands/create.js:180-185  the collision guard
PathExists ==
  /\ pc = "pathExists"
  /\ IF pathExists(dirs, files, projectPath)
     THEN /\ pc' = "returned"
          /\ outcome' = "TargetExists"
          /\ printed' = Append(printed, "Directory already exists!")
     ELSE pc' = "ensureDir" /\ outcome' = outcome /\ printed' = printed
  /\ UNCHANGED <<argv, second, returned, engine, caller, finalProjectName, selectedTemplate, features,
                 dirs, files, initial, gen, todo, log, error, install>>

\* src/test-template.js:11-19  the catalog lookup of the test script
TestTemplate ==
  /\ pc = "idle"
  /\ \E t \in TemplateArgs :
       /\ caller' = "testTemplate"
       /\ selectedTemplate' = t
       /\ features' = testFeatures
       /\ IF lookupTemplate(t) = undefined
          THEN pc' = "exited" /\ outcome' = "TemplateNotFound"
          ELSE pc' = "remove" /\ outcome' = outcome
  /\ UNCHANGED <<argv, printed, second, returned, engine, finalProjectName, dirs, files, initial, gen, todo, log,
                 error, install>>

\* the test script keeps whatever the directory held
Remove_Skip ==
  /\ pc = "remove"
  /\ pc' = "ensureDir"
  /\ UNCHANGED <<argv, printed, second, returned, engine, caller, finalProjectName, selectedTemplate,
                 features, dirs, files, initial, gen, todo, log, outcome, error,
                 install>>

\* src/test-template.js:21-24  clean up if the directory exists
Remove ==
  /\ pc = "remove"
  /\ dirs' = { d \in dirs : ~IsUnder(d, projectPath) }
  /\ files' = [p \in { q \in DOMAIN files : ~IsUnder(q, projectPath) } |-> files[p]]
  /\ pc' = "ensureDir"
  /\ UNCHANGED <<argv, printed, second, returned, engine, caller, finalProjectName, selectedTemplate, features,
                 initial, gen, todo, log, outcome, error, install>>

\* the caller goes on to generateProject without creating the directory
EnsureDir_Skip ==
  /\ pc = "ensureDir"
  /\ pc' = "call"
  /\ UNCHANGED <<argv, printed, second, returned, engine, caller, finalProjectName, selectedTemplate, features,
                 dirs, files, initial, gen, todo, log, outcome, error, install>>

\* src/src/commands/create.js:188  and  src/test-template.js:27
EnsureDir ==
  /\ pc = "ensureDir"
  /\ dirs' = dirs \cup Prefixes(projectPath)
  /\ pc' = "call"
  /\ UNCHANGED <<argv, printed, second, returned, engine, caller, finalProjectName, selectedTemplate, features,
                 files, initial, gen, todo, log, outcome, error, install>>

\* a program that imports generateProject and calls it with the catalog entry
CallGenerateProject ==
  /\ pc = "idle"
  /\ \E t \in TemplateArgs, f \in CallerFeatures :
       /\ caller' = "import"
       /\ selectedTemplate' = t
       /\ features' = f
  /\ pc' = "call"
  /\ UNCHANGED <<argv, printed, second, returned, engine, finalProjectName, dirs, files, initial, gen, todo, log,
                 outcome, error, install>>

\* src/unnamed/part_016:813-815  entry: templateConfig.name is read first
Enter ==
  /\ pc = "call"
  /\ IF templateConfig = undefined
     THEN Throw("TypeError") /\ gen' = "failed" /\ todo' = todo
     ELSE pc' = "generating" /\ gen' = "running" /\ todo' = plan
          /\ UNCHANGED <<outcome, error, returned>>
  /\ UNCHANGED <<argv, printed, second, engine, caller, finalProjectName, selectedTemplate, features,
                 dirs, files, initial, log, install>>

\* one awaited fs request of generateProject
Step ==
  /\ pc = "generating"
  /\ todo # <<>>
  /\ LET req == Head(todo) IN
       IF Succeeds(dirs, files, req)
       THEN /\ dirs' = DirsAfter(dirs, req)
            /\ files' = FilesAfter(files, req)
            /\ log' = Append(log, req)
            /\ todo' = Tail(todo)
            /\ UNCHANGED <<pc, gen, outcome, error, returned>>
       ELSE /\ Throw("ENOENT")
            /\ gen' = "failed"
            /\ UNCHANGED <<dirs, files, log, todo>>
  /\ UNCHANGED <<argv, printed, second, engine, caller, finalProjectName, selectedTemplate, features,
                 initial, install>>

\* a rejected request is followed by the removal of the target directory
IOFailure_Cleanup ==
  /\ \/ pc = "generating" /\ todo # <<>> /\ gen' = "failed"
     \/ pc = "ensureDir" /\ gen' = gen
  /\ Throw("IOError")
  /\ dirs' = { d \in dirs : ~IsUnder(d, projectPath) }
  /\ files' = [p \in { q \in DOMAIN files : ~IsUnder(q, projectPath) } |-> files[p]]
  /\ UNCHANGED <<argv, printed, second, engine, caller, finalProjectName, selectedTemplate, features,
                 initial, todo, log, install>>

\* the file system rejects the request (permissions, disk full)
IOFailure ==
  /\ \/ pc = "generating" /\ todo # <<>> /\ gen' = "failed"
     \/ pc = "ensureDir" /\ gen' = gen
  /\ Throw("IOError")
  /\ UNCHANGED <<argv, printed, second, engine, caller, finalProjectName, selectedTemplate, features,
                 dirs, files, initial, todo, log, install>>

\* src/unnamed/part_016:891  generation complete: back in the caller
Complete ==
  /\ pc = "generating"
  /\ todo = <<>>
  /\ gen' = "done"
  /\ returned' = generateProjectReturn
  /\ IF caller = "createProject"
     THEN pc' = "install" /\ outcome' = outcome
     ELSE IF caller = "testTemplate"
          THEN pc' = "listing" /\ outcome' = outcome
          ELSE pc' = "returned" /\ outcome' = "Done"
  /\ UNCHANGED <<argv, printed, second, engine, caller, finalProjectName, selectedTemplate, features,
                 dirs, files, initial, todo, log, error, install>>

\* src/src/commands/create.js:203-212  the command the install step runs
\* in the target directory; no command for the other languages
installCommand(language) ==
  CASE language \in {"TypeScript", "JavaScript"} -> "install"
    [] language = "Python" -> "python -m venv venv"
    [] language = "Rust"   -> "cargo build"
    [] language = "Go"     -> "go mod tidy"
    [] OTHER               -> "none"

\* a failing install command ends the run with an error
Install_Fatal ==
  /\ pc = "install"
  /\ \E ok \in BOOLEAN :
       IF argv.skipInstall \/ ok
       THEN /\ install' = IF argv.skipInstall THEN "skipped" ELSE "installed"
            /\ pc' = "returned"
            /\ outcome' = "Success"
            /\ printed' = printed \o <<"success">>
            /\ UNCHANGED <<error, returned>>
       ELSE install' = "warned" /\ Throw("ExecaError") /\ printed' = printed
  /\ UNCHANGED <<argv, second, engine, caller, finalProjectName, selectedTemplate,
                 features, dirs, files, initial, gen, todo, log>>

\* the install step runs whatever the options say
Install_IgnoreSkip ==
  /\ pc = "install"
  /\ install' = "installed"
  /\ printed' = printed \o <<"Dependencies installed!", "success">>
  /\ pc' = "returned"
  /\ outcome' = "Success"
  /\ UNCHANGED <<argv, second, returned, engine, caller, finalProjectName,
                 selectedTemplate, features, dirs, files, initial, gen, todo, log,
                 error>>

\* src/src/commands/create.js:196-221  install unless skipped, then the
\* success message; a failing install command only warns
Install ==
  /\ pc = "install"
  /\ \E ok \in BOOLEAN :
       /\ ~ok => (~argv.skipInstall /\ installCommand(templateConfig.language) # "none")
       /\ install' = IF argv.skipInstall THEN "skipped"
                     ELSE IF ok THEN "installed" ELSE "warned"
  /\ printed' = printed
                 \o ( CASE install' = "installed" -> <<"Dependencies installed!">>
                        [] install' = "warned" ->
                             <<"Could not install dependencies automatically.">>
                        [] OTHER -> <<>> )
                 \o <<"success">>
  /\ pc' = "returned"
  /\ outcome' = "Success"
  /\ UNCHANGED <<argv, second, returned, engine, caller, finalProjectName,
                 selectedTemplate, features, dirs, files, initial, gen, todo, log,
                 error>>

\* src/test-template.js:39-53  list the files, return { success: true }
Listing ==
  /\ pc = "listing"
  /\ pc' = "returned"
  /\ outcome' = "Success"
  /\ returned' = [success |-> TRUE, fileCount |-> Cardinality(readdirFiles),
                  testPath |-> projectPath]
  /\ UNCHANGED <<argv, printed, second, engine, caller, finalProjectName, selectedTemplate, features,
                 dirs, files, initial, gen, todo, log, error, install>>

Next ==
  \/ CreateProject
  \/ PathExists
  \/ TestTemplate
  \/ Remove
  \/ EnsureDir
  \/ CallGenerateProject
  \/ Enter
  \/ Step
  \/ IOFailure
  \/ Complete
  \/ Install
  \/ Listing

Spec == Init /\ [][Next]_vars

\* the same program with either copy of the generators module
SpecCopies == InitOn({"part_015", "part_016"}) /\ [][Next]_vars

----------------------------------------------------------------------------
\* the command line program: the new command with every form of its
\* command line, and the list command

\* values of the template option: absent, a stack id
TemplateOptions == {"", "rust-axum"}

\* the answers to the features checkbox: nothing checked, or the boxes
\* left as offered (src/src/commands/create.js:136-141, checked: true)
CliFeatures == {<<>>, <<"docker", "ci", "linting", "testing", "vscode">>}

\* src/src/index.js:30-38  the command lines of the new command: with or
\* without the name, the template option and the skip-install option
CliArgv ==
  { [projectName |-> n, template |-> t, skipInstall |-> s] :
      n \in {"", finalProjectName}, t \in TemplateOptions, s \in BOOLEAN }

\* create-stack-app new [project-name] [-t <template>] [-s]
NewCommand == CreateProjectWith(CliArgv, CliFeatures)

\* the ids printed before the first one that has no descriptor
RECURSIVE printedBeforeMissing(_)
printedBeforeMissing(ids) ==
  IF ids = <<>> \/ lookupTemplate(Head(ids)) = undefined THEN <<>>
  ELSE <<Head(ids)>> \o printedBeforeMissing(Tail(ids))

\* src/src/index.js:40-45 and src/src/commands/list.js:11-35  the list
\* command: template.name is read for every id of the language index
ListCommand ==
  /\ pc = "idle"
  /\ caller' = "list"
  /\ printed' = printed \o printedBeforeMissing(listTemplates)
  /\ IF \E i \in DOMAIN listTemplates : lookupTemplate(listTemplates[i]) = undefined
     THEN Throw("TypeError")
     ELSE pc' = "returned" /\ outcome' = "Listed" /\ UNCHANGED <<error, returned>>
  /\ UNCHANGED <<argv, second, engine, finalProjectName, selectedTemplate, features,
                 dirs, files, initial, gen, todo, log, install>>

InitCli == InitWith({"part_016"}, CliNames)

NextCli ==
  \/ NewCommand
  \/ ListCommand
  \/ PathExists
  \/ EnsureDir
  \/ Enter
  \/ Step
  \/ IOFailure
  \/ Complete
  \/ Install

SpecCli == InitCli /\ [][NextCli]_vars

----------------------------------------------------------------------------
\* two generateProject calls at the same time, on two directories of the
\* working directory: the awaited fs calls of the two interleave

\* the target of the second call
secondPath == join(cwd, <<"my-app">>)

\* the stacks and feature lists of the concurrent runs
ConcurrentTemplates == {"rust-axum", "nextjs-saas", "elixir-phoenix"}
ConcurrentFeatures == {<<>>, testFeatures}

\* the second call resolves its paths against the target of the first
planSecond_SharedPath(templateId, flags) ==
  generateProject(projectPath, templateId, lookupTemplate(templateId), flags)

\* src/unnamed/part_016:813  the requests of the second call: projectPath
\* is a parameter, each call has its own
planSecond(templateId, flags) ==
  generateProject(secondPath, templateId, lookupTemplate(templateId), flags)

InitTwo ==
  /\ engine = "part_016"
  /\ finalProjectName = "x"
  /\ dirs = Prefixes(projectPath) \cup Prefixes(secondPath)
  /\ files = NoFiles
  /\ initial = [dirs |-> dirs, files |-> files]
  /\ caller = "none"
  /\ pc = "idle"
  /\ selectedTemplate = ""
  /\ features = <<>>
  /\ gen = "notcalled"
  /\ todo = <<>>
  /\ log = <<>>
  /\ outcome = "none"
  /\ error = "none"
  /\ install = "notrun"
  /\ returned = undefined
  /\ second = noSecond
  /\ argv = noArgv
  /\ printed = <<>>

\* both calls are made; the second has passed its entry
CallConcurrently ==
  /\ pc = "idle"
  /\ second.gen = "notcalled"
  /\ \E t \in DOMAIN templates, f \in ConcurrentFeatures, t2 \in ConcurrentTemplates :
       /\ caller' = "import"
       /\ selectedTemplate' = t
       /\ features' = f
       /\ second' = [gen |-> "running", selectedTemplate |-> t2,
                     features |-> testFeatures,
                     todo |-> planSecond(t2, testFeatures)]
  /\ pc' = "call"
  /\ UNCHANGED <<argv, printed, engine, finalProjectName, dirs, files, initial, gen, todo, log,
                 outcome, error, install, returned>>

\* one awaited fs request of the second call
StepSecond ==
  /\ second.gen = "running"
  /\ second.todo # <<>>
  /\ LET req == Head(second.todo) IN
       IF Succeeds(dirs, files, req)
       THEN /\ dirs' = DirsAfter(dirs, req)
            /\ files' = FilesAfter(files, req)
            /\ second' = [second EXCEPT !.todo = Tail(second.todo)]
       ELSE /\ second' = [second EXCEPT !.gen = "failed"]
            /\ UNCHANGED <<dirs, files>>
  /\ UNCHANGED <<argv, printed, engine, caller, pc, finalProjectName, selectedTemplate, features,
                 initial, gen, todo, log, outcome, error, install, returned>>

\* src/unnamed/part_016:891  the second call completes
CompleteSecond ==
  /\ second.gen = "running"
  /\ second.todo = <<>>
  /\ second' = [second EXCEPT !.gen = "done"]
  /\ UNCHANGED <<argv, printed, engine, caller, pc, finalProjectName, selectedTemplate, features,
                 dirs, files, initial, gen, todo, log, outcome, error, install,
                 returned>>

NextTwo ==
  \/ CallConcurrently
  \/ Enter
  \/ Step
  \/ Complete
  \/ StepSecond
  \/ CompleteSecond

SpecTwo == InitTwo /\ [][NextTwo]_vars

----------------------------------------------------------------------------
\* two runs of the new command at the same time, in the same working
\* directory and with the same project name x: createProject awaits
\* fs.pathExists and then fs.ensureDir (src/src/commands/create.js:181,
\* 188), so the steps of the two runs interleave between them.  The first
\* run is the one of the variables pc, gen, todo; the second run is given
\* --skip-install and keeps its position in the record second.

\* no directory x yet
InitRace ==
  /\ engine = "part_016"
  /\ finalProjectName = "x"
  /\ dirs = Prefixes(cwd)
  /\ files = NoFiles
  /\ initial = [dirs |-> dirs, files |-> files]
  /\ caller = "none"
  /\ pc = "idle"
  /\ selectedTemplate = ""
  /\ features = <<>>
  /\ gen = "notcalled"
  /\ todo = <<>>
  /\ log = <<>>
  /\ outcome = "none"
  /\ error = "none"
  /\ install = "notrun"
  /\ returned = undefined
  /\ second = noSecond
  /\ argv = noArgv
  /\ printed = <<>>

\* the stacks of the second run
RaceTemplates == {"rust-axum", "react-vite"}

\* the first run: create-stack-app new x, no feature ticked
FirstCreateProject == CreateProjectWith(PlainArgv, {<<>>})

\* src/src/commands/create.js:11-173  the second run has confirmed
SecondCreateProject ==
  /\ second = noSecond
  /\ \E t \in RaceTemplates :
       second' = [gen |-> "notcalled", pc |-> "pathExists", outcome |-> "none",
                  selectedTemplate |-> t, features |-> <<>>, todo |-> <<>>]
  /\ UNCHANGED <<argv, printed, engine, caller, pc, finalProjectName, selectedTemplate,
                 features, dirs, files, initial, gen, todo, log, outcome, error, install,
                 returned>>

\* the guard of the second run passes whether or not the directory exists
SecondPathExists_NoGuard ==
  /\ second # noSecond
  /\ second.pc = "pathExists"
  /\ second' = [second EXCEPT !.pc = "ensureDir"]
  /\ UNCHANGED <<argv, printed, engine, caller, pc, finalProjectName, selectedTemplate,
                 features, dirs, files, initial, gen, todo, log, outcome, error, install,
                 returned>>

\* src/src/commands/create.js:180-185  the collision guard of the second run
SecondPathExists ==
  /\ second # noSecond
  /\ second.pc = "pathExists"
  /\ second' = IF pathExists(dirs, files, projectPath)
               THEN [second EXCEPT !.pc = "returned", !.outcome = "TargetExists"]
               ELSE [second EXCEPT !.pc = "ensureDir"]
  /\ UNCHANGED <<argv, printed, engine, caller, pc, finalProjectName, selectedTemplate,
                 features, dirs, files, initial, gen, todo, log, outcome, error, install,
                 returned>>

\* src/src/commands/create.js:188-192  the second run creates the directory
\* and enters generateProject
SecondEnsureDir ==
  /\ second # noSecond
  /\ second.pc = "ensureDir"
  /\ dirs' = dirs \cup Prefixes(projectPath)
  /\ second' = [second EXCEPT
                  !.pc = "generating",
                  !.gen = "running",
                  !.todo = generateProject(projectPath, second.selectedTemplate,
                             lookupTemplate(second.selectedTemplate), second.features)]
  /\ UNCHANGED <<argv, printed, engine, caller, pc, finalProjectName, selectedTemplate,
                 features, files, initial, gen, todo, log, outcome, error, install,
                 returned>>

NextRace ==
  \/ FirstCreateProject
  \/ SecondCreateProject
  \/ PathExists
  \/ SecondPathExists
  \/ EnsureDir
  \/ SecondEnsureDir
  \/ Enter
  \/ Step
  \/ StepSecond
  \/ Complete
  \/ CompleteSecond
  \/ Install

SpecRace == InitRace /\ [][NextRace]_vars

----------------------------------------------------------------------------
\* vocabulary of the properties

Terminal == pc \in {"returned", "exited", "thrown"}

\* a path inside the target directory
InTarget(rel) == join(projectPath, rel)

IsWrite(req) == req.op # "ensureDir"

\* the writes generateProject completed so far, in order
Writes == SelectSeq(log, IsWrite)

NotStack(req) == req.layer # "stack"

\* the writes the common and the feature layers owe, in the documented order
ExpectedBeforeStack ==
  << [layer |-> "common", path |-> InTarget(<<"README.md">>)],
     [layer |-> "common", path |-> InTarget(<<".gitignore">>)] >>
  \o (IF "docker" \in Range(features)
      THEN << [layer |-> "docker", path |-> InTarget(<<"Dockerfile">>)],
              [layer |-> "docker", path |-> InTarget(<<"docker-compose.yml">>)] >>
      ELSE <<>>)
  \o (IF "ci" \in Range(features)
      THEN << [layer |-> "ci", path |-> InTarget(<<".github", "workflows", "ci.yml">>)] >>
      ELSE <<>>)
  \o (IF "vscode" \in Range(features)
      THEN << [layer |-> "vscode", path |-> InTarget(<<".vscode", "settings.json">>)] >>
      ELSE <<>>)

----------------------------------------------------------------------------
\* C1: in every generateProject call, whatever the order of the flags, the
\* writes completed so far are a prefix of: README.md, .gitignore, then (if
\* docker) Dockerfile and docker-compose.yml, then (if ci) ci.yml, then (if
\* vscode) settings.json, followed by writes of the stack generator only, and
\* the stack generator writes nothing before all of those are written.
C1_LayerOrder ==
  LET before   == SelectSeq(Writes, NotStack)
      n        == Len(before)
      expected == ExpectedBeforeStack
  IN  /\ n <= Len(expected)
      /\ [i \in 1..n |-> [layer |-> before[i].layer, path |-> before[i].path]]
           = SubSeq(expected, 1, n)
      /\ \A i \in 1..(Len(log) - 1) :
            log[i].layer = "stack" => log[i + 1].layer = "stack"
      /\ (log # <<>> /\ log[Len(log)].layer = "stack") => n = Len(expected)

\* the flags were supplied in the reverse of the layer order, all three
\* feature layers and the stack generator have written
C1_Witness ==
  /\ gen = "done"
  /\ features = <<"ci", "docker">>
  /\ \E i \in DOMAIN log : log[i].layer = "stack" /\ log[i].op = "writeFile"
  /\ \E i \in DOMAIN log : log[i].layer = "docker"

----------------------------------------------------------------------------
\* the paths the common layer writes
CommonPaths == { InTarget(<<"README.md">>), InTarget(<<".gitignore">>) }

\* the completed writes of the stack generator to a path of the common layer
StackOverCommon ==
  { i \in DOMAIN log :
      log[i].layer = "stack" /\ IsWrite(log[i]) /\ log[i].path \in CommonPaths }

\* what the common layer wrote to the path
CommonData(path) ==
  log[CHOOSE i \in DOMAIN log : log[i].layer = "common" /\ log[i].path = path].data

\* src/unnamed/part_016:1505, 2050, 4355  the generators that open .gitignore
\* with flag 'a'
AppendingStacks == {"nextjs-saas", "node-express-api", "ai-saas-nextjs"}

\* C2 as stated: after a successful generateProject every path that both the
\* common layer and the stack generator wrote holds exactly the stack
\* generator's content and none of the common layer's.
C2_Original ==
  gen = "done" =>
    \A i \in StackOverCommon : files[log[i].path] = <<log[i].data>>

\* C2, amended: after a successful generateProject every path that both the
\* common layer and the stack generator wrote ends with the stack generator's
\* content.  It holds exactly that content when the generator writes the
\* path plainly, which is every case but the .gitignore of nextjs-saas,
\* node-express-api and ai-saas-nextjs; those three append, and the file then
\* holds the common layer's content followed by the generator's.
C2_LastWriteWins ==
  gen = "done" =>
    \A i \in StackOverCommon :
      LET path == log[i].path IN
        /\ log[i].op = "appendFile" <=>
              (selectedTemplate \in AppendingStacks /\ path = InTarget(<<".gitignore">>))
        /\ log[i].op = "writeFile" => files[path] = <<log[i].data>>
        /\ log[i].op = "appendFile" => files[path] = <<CommonData(path), log[i].data>>

\* rust-axum has replaced both files of the common layer
C2_Witness ==
  /\ gen = "done"
  /\ selectedTemplate = "rust-axum"
  /\ Cardinality(StackOverCommon) = 2
  /\ files[InTarget(<<".gitignore">>)] = << <<"generateRustAxum", "gitignore">> >>

----------------------------------------------------------------------------
\* the files left by a sequence of requests that all succeed
RECURSIVE filesAfterAll(_, _)
filesAfterAll(f, requests) ==
  IF requests = <<>> THEN f
  ELSE filesAfterAll(FilesAfter(f, Head(requests)), Tail(requests))

\* the tree the same call leaves, from an empty target directory, when the
\* feature list is ['docker', 'ci']
TreeOfDockerCi ==
  filesAfterAll(NoFiles,
    generateProject(projectPath, selectedTemplate, templateConfig, <<"docker", "ci">>))

\* C3: for every stack id, generateProject with ['ci', 'docker'] leaves, from
\* an empty target directory, the same paths with the same content as with
\* ['docker', 'ci'].
C3_FlagOrderIndependent ==
  (gen = "done" /\ initial.files = NoFiles /\ features = <<"ci", "docker">>)
    => files = TreeOfDockerCi

----------------------------------------------------------------------------
\* the target directory existed when the process started
TargetExisted == pathExists(initial.dirs, initial.files, projectPath)

\* C4: when createProject finds the target directory present, nothing in the
\* file system changes, generateProject and the install step never run, and a
\* call that was not cancelled at the confirmation ends with TargetExists.
C4_CollisionGuard ==
  (caller = "createProject" /\ TargetExisted) =>
    /\ dirs = initial.dirs
    /\ files = initial.files
    /\ gen = "notcalled"
    /\ install = "notrun"
    /\ pc \in {"pathExists", "returned"}
    /\ pc = "returned" => outcome \in {"TargetExists", "Cancelled"}

\* createProject has stopped at a directory that holds someone else's file
C4_Witness ==
  /\ caller = "createProject"
  /\ outcome = "TargetExists"
  /\ pc = "returned"
  /\ InTarget(<<"notes.txt">>) \in DOMAIN files

----------------------------------------------------------------------------
----------------------------------------------------------------------------
\* C6: the step in which generateProject fails writes nothing, removes
\* nothing and hands the error to the caller, and once generateProject has
\* failed no request of any layer is issued and the file system stays as the
\* failure left it: the files written before the failure remain, and no
\* later layer runs.
C6_PartialFailure ==
  [][/\ (gen # "failed" /\ gen' = "failed") =>
          /\ files' = files /\ dirs' = dirs /\ log' = log
          /\ outcome' = "Error" /\ error' # "none"
          /\ pc' \in {"exited", "returned", "thrown"}
     /\ gen = "failed" =>
          /\ files' = files /\ dirs' = dirs /\ log' = log
          /\ gen' = "failed" /\ outcome' = "Error"]_vars

\* a write of the common layer was rejected after README.md was written:
\* README.md is on disk, and nothing of a feature layer or of the stack
\* generator is
C6_Witness ==
  /\ gen = "failed"
  /\ error = "IOError"
  /\ features = <<"docker">>
  /\ Len(log) = 1
  /\ InTarget(<<"README.md">>) \in DOMAIN files
  /\ InTarget(<<"Dockerfile">>) \notin DOMAIN files
  /\ outcome = "Error"

----------------------------------------------------------------------------
\* the case labels of the switch of the copy in use
casesInUse == IF engine = "part_016" THEN switchCases ELSE switchCases_015

\* the stack id has a catalog descriptor and no case in the dispatch
FallbackCase ==
  selectedTemplate \in DOMAIN templates /\ selectedTemplate \notin casesInUse

\* the completed requests of one layer
LayerLog(layer) == SelectSeq(log, LAMBDA r : r.layer = layer)

\* C7: for a stack id that has a catalog descriptor and no case in the
\* dispatch, generateProject never fails on account of the stack (it fails
\* only when the file system refuses a request), and when it completes the
\* common layer and each selected feature layer have run and the stack layer
\* consists of one write, SETUP.md, by generateBasicStructure.
C7_FallbackCoverage ==
  FallbackCase =>
    /\ gen = "failed" => error \in {"IOError", "ENOENT"}
    /\ (gen = "failed" /\ error = "ENOENT") =>
          caller = "import" /\ ~TargetExisted /\ log = <<>>
    /\ gen = "done" =>
          /\ LayerLog("stack") =
                << [layer |-> "stack", op |-> "writeFile",
                    path |-> InTarget(<<"SETUP.md">>),
                    data |-> <<"generateBasicStructure", "literal">>] >>
          /\ Len(LayerLog("common")) = 2
          /\ Includes(features, "docker") <=> LayerLog("docker") # <<>>
          /\ Includes(features, "ci") <=> LayerLog("ci") # <<>>
          /\ Includes(features, "vscode") <=> LayerLog("vscode") # <<>>
          /\ InTarget(<<"SETUP.md">>) \in DOMAIN files
          /\ outcome \in {"none", "Done", "Success"}

\* flask-api, which the earlier copy of the dispatch has no case for, has
\* been generated by that copy with the docker layer
C7_Witness ==
  /\ engine = "part_015"
  /\ selectedTemplate = "flask-api"
  /\ gen = "done"
  /\ outcome = "Done"
  /\ features = <<"docker">>
  /\ InTarget(<<"SETUP.md">>) \in DOMAIN files
  /\ InTarget(<<"Dockerfile">>) \in DOMAIN files

----------------------------------------------------------------------------
\* the generators that have written in the stack layer of the running call
GeneratorsUsed ==
  { log[i].data[1] : i \in { j \in DOMAIN log : log[j].layer = "stack" /\ IsWrite(log[j]) } }

\* C8: every case label of the dispatch is a stack id of the catalog, every
\* stack id of the catalog is dispatched (to its own case or to the
\* fallback), and the stack layer of a call is written by one generator
\* only: by generateBasicStructure exactly when the id has no case.
C8_CatalogRegistry ==
  /\ switchCases \subseteq DOMAIN templates
  /\ (caller # "none" /\ gen \in {"running", "done"}) =>
        /\ selectedTemplate \in DOMAIN templates
        /\ Cardinality(GeneratorsUsed) <= 1
        /\ gen = "done" => Cardinality(GeneratorsUsed) = 1
        /\ "generateBasicStructure" \in GeneratorsUsed
             <=> (GeneratorsUsed # {} /\ selectedTemplate \notin switchCases)

\* the last entry of the catalog has been generated by its own generator
C8_Witness ==
  /\ gen = "done"
  /\ selectedTemplate = "elixir-phoenix"
  /\ GeneratorsUsed = {"generateElixirPhoenix"}

----------------------------------------------------------------------------
\* the dependency manifest of the stack's language convention
manifest ==
  CASE templateConfig.language = "TypeScript" -> <<"package.json">>
    [] templateConfig.language = "Python"     -> <<"requirements.txt">>
    [] templateConfig.language = "Rust"       -> <<"Cargo.toml">>
    [] templateConfig.language = "Go"         -> <<"go.mod">>
    [] templateConfig.language = "C#"         -> <<basename(projectPath) \o ".csproj">>
    [] templateConfig.language = "Elixir"     -> <<"mix.exs">>

\* C9: for every stack id of the catalog and every feature list, a
\* generateProject call on a target directory that exists never fails on its
\* own account (only when the file system refuses a request), and when it
\* completes the tree holds README.md and the manifest of the stack's
\* language: package.json, requirements.txt, Cargo.toml, go.mod,
\* <project>.csproj or mix.exs.
C9_ReadmeAndManifest ==
  (selectedTemplate \in DOMAIN templates /\ gen \in {"done", "failed"}) =>
    /\ (gen = "failed" /\ (caller # "import" \/ TargetExisted)) => error = "IOError"
    /\ gen = "done" =>
          /\ InTarget(<<"README.md">>) \in DOMAIN files
          /\ InTarget(manifest) \in DOMAIN files

\* the C# stack has been generated into an empty directory that existed
C9_Witness ==
  /\ gen = "done"
  /\ caller = "import"
  /\ selectedTemplate = "dotnet-minimal-api"
  /\ initial.files = NoFiles
  /\ TargetExisted
  /\ InTarget(<<basename(projectPath) \o ".csproj">>) \in DOMAIN files
  /\ InTarget(<<"README.md">>) \in DOMAIN files

----------------------------------------------------------------------------
\* C10: after a successful generateProject, if 'docker' is in the feature
\* list the tree contains Dockerfile and docker-compose.yml, if 'ci' is in it
\* the tree contains .github/workflows/ci.yml, and if 'vscode' is in it the
\* tree contains .vscode/settings.json.
C10_FeatureFiles ==
  gen = "done" =>
    /\ Includes(features, "docker") =>
          /\ InTarget(<<"Dockerfile">>) \in DOMAIN files
          /\ InTarget(<<"docker-compose.yml">>) \in DOMAIN files
    /\ Includes(features, "ci") =>
          InTarget(<<".github", "workflows", "ci.yml">>) \in DOMAIN files
    /\ Includes(features, "vscode") =>
          InTarget(<<".vscode", "settings.json">>) \in DOMAIN files

\* the test script, which passes docker, ci and vscode, has generated a
\* Python stack and all four files are there
C10_Witness ==
  /\ gen = "done"
  /\ caller = "testTemplate"
  /\ selectedTemplate = "django-pro"
  /\ InTarget(<<"Dockerfile">>) \in DOMAIN files
  /\ InTarget(<<"docker-compose.yml">>) \in DOMAIN files
  /\ InTarget(<<".github", "workflows", "ci.yml">>) \in DOMAIN files
  /\ InTarget(<<".vscode", "settings.json">>) \in DOMAIN files

----------------------------------------------------------------------------
\* the target directory held no file when the process started
StartedEmpty == \A p \in DOMAIN initial.files : ~IsUnder(p, projectPath)

\* C11: after a successful generateProject without 'docker' among the
\* features, into a target that held no file, the target directory holds
\* neither Dockerfile nor docker-compose.yml.
C11_DockerOptional ==
  (gen = "done" /\ StartedEmpty /\ ~Includes(features, "docker")) =>
    /\ InTarget(<<"Dockerfile">>) \notin DOMAIN files
    /\ InTarget(<<"docker-compose.yml">>) \notin DOMAIN files

----------------------------------------------------------------------------
\* C12: after a successful generateProject for a stack id of the catalog the
\* target directory holds .env.example.
C12_EnvExample ==
  (gen = "done" /\ selectedTemplate \in DOMAIN templates) =>
    InTarget(<<".env.example">>) \in DOMAIN files

----------------------------------------------------------------------------
\* the feature list without one key
Without(flags, key) == SelectSeq(flags, LAMBDA f : f # key)

\* the tree the same call leaves, from an empty target directory, when
\* 'hooks' is taken out of the feature list
TreeWithoutHooks ==
  filesAfterAll(NoFiles,
    generateProject(projectPath, selectedTemplate, templateConfig,
                    Without(features, "hooks")))

\* C13: for every stack id and feature list, a generateProject call whose
\* list holds 'hooks', a key no layer tests for, leaves from an empty target
\* directory the same paths with the same content as the call without it.
C13_UnknownKeyIgnored ==
  (gen = "done" /\ initial.files = NoFiles /\ Includes(features, "hooks"))
    => files = TreeWithoutHooks

----------------------------------------------------------------------------
\* generateProject was called straight on a path that did not exist
CalledOnAbsent == caller = "import" /\ ~TargetExisted /\ gen # "notcalled"

\* C14 as stated: generateProject called on a target path that does not
\* exist creates the directory and writes README.md and .gitignore into it,
\* instead of failing for want of the directory.
C14_Original ==
  CalledOnAbsent =>
    /\ error # "ENOENT"
    /\ gen = "done" =>
          /\ projectPath \in dirs
          /\ InTarget(<<"README.md">>) \in DOMAIN files
          /\ InTarget(<<".gitignore">>) \in DOMAIN files

\* C14, amended: the target directory is created by the caller, not by the
\* common layer.  createProject and testTemplate ensure the directory before
\* they call generateProject, so in their runs the directory exists from the
\* call on and a completed run has README.md and .gitignore in it.
\* generateProject called on a path that does not exist never creates it:
\* it never completes and writes nothing, and a call that gets as far as its
\* first write, README.md, fails there with ENOENT.
C14_CallerCreatesTarget ==
  /\ (caller \in {"createProject", "testTemplate"} /\ gen # "notcalled") =>
        /\ projectPath \in dirs
        /\ error # "ENOENT"
        /\ gen = "done" =>
              /\ InTarget(<<"README.md">>) \in DOMAIN files
              /\ InTarget(<<".gitignore">>) \in DOMAIN files
  /\ (caller = "import" /\ ~TargetExisted) =>
        /\ projectPath \notin dirs
        /\ dirs = initial.dirs /\ files = initial.files /\ log = <<>>
        /\ gen # "done"
        /\ (gen = "failed" /\ selectedTemplate \in DOMAIN templates) =>
              error \in {"ENOENT", "IOError"}
        /\ error = "ENOENT" =>
              /\ todo # <<>>
              /\ Head(todo).path = InTarget(<<"README.md">>)

\* createProject found no directory, created it, and the completed
\* generateProject call left README.md and .gitignore in it
C14_Witness ==
  /\ caller = "createProject"
  /\ ~TargetExisted
  /\ gen = "done"
  /\ projectPath \in dirs
  /\ InTarget(<<"README.md">>) \in DOMAIN files
  /\ InTarget(<<".gitignore">>) \in DOMAIN files

----------------------------------------------------------------------------
\* the paths the completed requests wrote, relative to the target directory
WrittenPaths ==
  { SubSeq(log[i].path, Len(projectPath) + 1, Len(log[i].path)) :
      i \in { j \in DOMAIN log : IsWrite(log[j]) } }

----------------------------------------------------------------------------
\* what lies outside the target directory
OutsideDirs(d) == { p \in d : ~IsUnder(p, projectPath) }
OutsideFiles(f) == [p \in { q \in DOMAIN f : ~IsUnder(q, projectPath) } |-> f[p]]

\* the path lies strictly inside the target directory
Inside(p) == IsUnder(p, projectPath) /\ p # projectPath

\* C16: every request of a generateProject call, of any layer, names a path
\* strictly inside the target directory, for every project name and stack
\* id, the names derived from the project name included: the whole list of
\* requests when the call starts, and the request just completed at every
\* step after; and nothing outside the target directory is created, changed
\* or removed.
C16_InsideTarget ==
  /\ (gen = "running" /\ log = <<>>) => \A i \in DOMAIN todo : Inside(todo[i].path)
  /\ log # <<>> => Inside(log[Len(log)].path)
  /\ OutsideDirs(dirs) = OutsideDirs(initial.dirs)
  /\ OutsideFiles(files) = OutsideFiles(initial.files)

\* the Elixir stack has been generated into the parent of the working
\* directory, given as '..': the directory named after the project is
\* lib/home inside the target
C16_Witness ==
  /\ gen = "done"
  /\ finalProjectName = ".."
  /\ selectedTemplate = "elixir-phoenix"
  /\ projectPath = <<"home">>
  /\ <<"home", "lib", "home", "web">> \in dirs

----------------------------------------------------------------------------
\* the files and the directories under a directory
TreeUnder(f, dir) == [p \in { q \in DOMAIN f : IsUnder(q, dir) } |-> f[p]]
DirsUnder(d, dir) == { p \in d : IsUnder(p, dir) }

\* C17: with two generateProject calls running at the same time on two
\* directories, a step of one call changes nothing under the target of the
\* other and nothing of the other call's progress, no request of either
\* fails, and when both are done the tree of each target is the tree its
\* call leaves when it runs alone, whatever the interleaving was.
C17_NoInterference ==
  [][/\ second' # second =>
          /\ TreeUnder(files', projectPath) = TreeUnder(files, projectPath)
          /\ DirsUnder(dirs', projectPath) = DirsUnder(dirs, projectPath)
          /\ UNCHANGED <<gen, todo, log>>
     /\ (gen' # gen \/ log' # log) =>
          /\ TreeUnder(files', secondPath) = TreeUnder(files, secondPath)
          /\ DirsUnder(dirs', secondPath) = DirsUnder(dirs, secondPath)
          /\ second' = second
     /\ gen' # "failed" /\ second'.gen # "failed"
     /\ (gen' = "done" /\ second'.gen = "done") =>
          /\ TreeUnder(files', projectPath) = filesAfterAll(NoFiles, plan)
          /\ TreeUnder(files', secondPath) =
                filesAfterAll(NoFiles, planSecond(second.selectedTemplate, second.features))
          /\ DOMAIN files' = DOMAIN TreeUnder(files', projectPath)
                               \cup DOMAIN TreeUnder(files', secondPath)]_vars

\* both calls have finished, each for a stack that appends to the
\* .gitignore of its own target
C17_Witness ==
  /\ gen = "done"
  /\ second.gen = "done"
  /\ selectedTemplate = "nextjs-saas"
  /\ second.selectedTemplate = "nextjs-saas"
  /\ Len(files[InTarget(<<".gitignore">>)]) = 2
  /\ Len(files[secondPath \o <<".gitignore">>]) = 2

----------------------------------------------------------------------------
\* language names: those of the catalog, JavaScript, which the command
\* tables know and the other tables do not, a name no table knows, and the
\* empty name
LanguageArgs ==
  {"TypeScript", "JavaScript", "Python", "Rust", "Go", "C#", "Elixir", "Kotlin", ""}

\* the keys of the command tables and of the structure table
commandLanguages == {"TypeScript", "JavaScript", "Python", "Rust", "Go"}
structureLanguages == {"TypeScript", "Python", "Rust", "Go"}

\* the fallback texts
SeeDocumentation ==
  {"See documentation", "# See documentation",
   "See documentation for project structure"}

\* the lookups of one language, as generateReadme puts them in the README
Profile(language) ==
  <<getInstallCommand(language), getRunCommand(language),
    generateProjectStructure(language), getTestCommand(language)>>

\* the README the common layer wrote in this call, if it has
CommonReadme ==
  { log[i].data : i \in { j \in DOMAIN log :
      log[j].layer = "common" /\ log[j].path = InTarget(<<"README.md">>) } }

----------------------------------------------------------------------------
\* the languages with a container definition of their own
dockerLanguages == {"TypeScript", "Python", "Rust", "Go"}

\* the data of the Dockerfile and of the compose file of a language
DockerfileOf(language) == generateDockerFiles(<<>>, language)[1].data
ComposeOf(language) == generateDockerFiles(<<>>, language)[2].data

\* the request just completed
LastDone == log[Len(log)]

----------------------------------------------------------------------------
\* the feature layers and the paths each may write, relative to the target
FeatureLayers == {"docker", "ci", "vscode"}

OwnPaths(layer) ==
  CASE layer = "docker" -> { <<"Dockerfile">>, <<"docker-compose.yml">> }
    [] layer = "ci"     -> { <<".github", "workflows", "ci.yml">> }
    [] layer = "vscode" -> { <<".vscode", "settings.json">> }

\* what the layer writes to the path when its flag is the only one
\* selected: the content that depends on nothing but the language
AloneData(layer, path) ==
  LET alone == commonAndFeatureLayers(projectPath, templateConfig, <<layer>>)
      i     == CHOOSE j \in DOMAIN alone :
                 alone[j].layer = layer /\ alone[j].path = path
  IN  alone[i].data

\* C20: a write of a feature layer goes to one of the layer's own paths
\* (container: Dockerfile, docker-compose.yml; CI: .github/workflows/ci.yml;
\* editor: .vscode/settings.json), every other file keeps its content, and
\* what is written is what the layer writes for the stack's language when
\* its flag is the only one selected, whatever the other flags are and
\* whatever the earlier layers wrote; a directory a feature layer creates
\* lies on the way to one of its own paths.
C20_LayerIsolation ==
  [][(log' # log /\ log'[Len(log')].layer \in FeatureLayers) =>
       LET req == log'[Len(log')] IN
         IF IsWrite(req)
         THEN /\ req.path \in { InTarget(p) : p \in OwnPaths(req.layer) }
              /\ DOMAIN files' = DOMAIN files \cup {req.path}
              /\ \A p \in DOMAIN files : p # req.path => files'[p] = files[p]
              /\ files'[req.path] = <<AloneData(req.layer, req.path)>>
              /\ dirs' = dirs
         ELSE /\ files' = files
              /\ \E p \in OwnPaths(req.layer) : IsUnder(InTarget(p), req.path)
              /\ dirs \subseteq dirs'
              /\ \A d \in dirs' \ dirs : IsUnder(d, projectPath)]_vars

\* the editor layer has written its settings after the container and CI
\* layers wrote theirs
C20_Witness ==
  /\ log # <<>>
  /\ LastDone.layer = "vscode"
  /\ LastDone.path = InTarget(<<".vscode", "settings.json">>)
  /\ features = testFeatures
  /\ InTarget(<<"Dockerfile">>) \in DOMAIN files
  /\ InTarget(<<".github", "workflows", "ci.yml">>) \in DOMAIN files

----------------------------------------------------------------------------
\* the tree that the target directory name, the stack id, its descriptor and
\* the feature list determine, from an empty target directory
TreeOfArguments ==
  filesAfterAll(NoFiles,
    generateProject(projectPath, selectedTemplate, templateConfig, features))

----------------------------------------------------------------------------
\* C22: when the new command is given the template option with a catalog
\* stack id, the project createProject generates is of exactly that stack.
C22_TemplateOption ==
  (caller = "createProject" /\ argv.template \in DOMAIN templates /\ gen = "done") =>
    selectedTemplate = argv.template

----------------------------------------------------------------------------
\* C23: the install step runs only in createProject, only after
\* generateProject has completed for that project, and only when the
\* skip-install option is not set: never after a collision, a cancellation
\* or a failed generation; with the option set the step is skipped.
C23_InstallAfterGeneration ==
  /\ install # "notrun" =>
       /\ caller = "createProject"
       /\ gen = "done"
       /\ todo = <<>>
       /\ error = "none"
       /\ outcome = "Success"
       /\ ~TargetExisted
  /\ install \in {"installed", "warned"} => ~argv.skipInstall
  /\ install = "skipped" => argv.skipInstall
  /\ (outcome \in {"TargetExists", "Cancelled", "Error"} \/ gen = "failed") =>
       install = "notrun"

\* the install command of a Go project has run after its generation
C23_Witness ==
  /\ selectedTemplate = "go-fiber"
  /\ install = "installed"
  /\ gen = "done"
  /\ ~argv.skipInstall
  /\ installCommand(templateConfig.language) = "go mod tidy"

----------------------------------------------------------------------------
\* C24: the project name a stack generator uses is the base name of the
\* target directory: a completed go-fiber generation with docker and ci on
\* a target named x leaves go.mod, main.go, Dockerfile and
\* .github/workflows/ci.yml, go.mod declares module x (for any target, the
\* base name of the target), and such a generation fails only when the file
\* system rejects a request or the caller did not create the target.
C24_GoFiberManifest ==
  selectedTemplate = "go-fiber" =>
    /\ gen = "done" =>
         /\ InTarget(<<"go.mod">>) \in DOMAIN files
         /\ files[InTarget(<<"go.mod">>)] =
              << <<"generateGoFiber", "goMod", basename(projectPath)>> >>
         /\ InTarget(<<"main.go">>) \in DOMAIN files
    /\ (gen = "done" /\ Includes(features, "docker") /\ Includes(features, "ci")
          /\ finalProjectName = "x") =>
         /\ files[InTarget(<<"go.mod">>)] = << <<"generateGoFiber", "goMod", "x">> >>
         /\ InTarget(<<"Dockerfile">>) \in DOMAIN files
         /\ InTarget(<<".github", "workflows", "ci.yml">>) \in DOMAIN files
    /\ gen = "failed" =>
         \/ error = "IOError"
         \/ caller = "import" /\ ~TargetExisted

\* createProject has generated go-fiber with docker and ci in x
C24_Witness ==
  /\ selectedTemplate = "go-fiber"
  /\ gen = "done"
  /\ features = <<"docker", "ci">>
  /\ finalProjectName = "x"
  /\ caller = "createProject"
  /\ files[InTarget(<<"go.mod">>)] = << <<"generateGoFiber", "goMod", "x">> >>

----------------------------------------------------------------------------
\* the places of a stack id in the language index
PlacesOf(id) ==
  { <<i, j>> \in (DOMAIN languages) \X (1..5) :
      j \in DOMAIN languages[i].templateIds /\ languages[i].templateIds[j] = id }

\* C25: every catalog stack id is in exactly one list of the language
\* index, under the key that is the stack's language field, and every id of
\* the index is a key of the catalog; the list command prints every catalog
\* id exactly once and ends without an error.
C25_LanguageIndex ==
  /\ pc = "idle" =>
       /\ \A id \in DOMAIN templates :
            /\ Cardinality(PlacesOf(id)) = 1
            /\ \A pl \in PlacesOf(id) : languages[pl[1]].language = templates[id].language
       /\ \A i \in DOMAIN languages :
            /\ Len(languages[i].templateIds) <= 5
            /\ Range(languages[i].templateIds) \subseteq DOMAIN templates
  /\ caller = "list" =>
       /\ pc = "returned"
       /\ outcome = "Listed"
       /\ error = "none"
       /\ Range(printed) = DOMAIN templates
       /\ Len(printed) = Cardinality(DOMAIN templates)
       /\ dirs = initial.dirs /\ files = initial.files

\* the list command has printed the fifteen stacks
C25_Witness ==
  /\ caller = "list"
  /\ outcome = "Listed"
  /\ Len(printed) = 15
  /\ printed[1] = "nextjs-saas"
  /\ printed[15] = "elixir-phoenix"

----------------------------------------------------------------------------
\* C26: createProject creates the target directory only for a project name
\* made of lowercase letters, digits, dashes and underscores, whether the
\* name was typed at the prompt or given on the command line.
C26_NameRule ==
  (caller = "createProject" /\ projectPath \in dirs /\ projectPath \notin initial.dirs)
    => validate(finalProjectName)

----------------------------------------------------------------------------
\* C27: after a 'no' at the confirmation createProject has ended, the file
\* system is as it was (the target directory is not created), generateProject
\* was not called, the install step did not run and no error was raised.
C27_Cancellation ==
  (caller = "createProject" /\ outcome = "Cancelled") =>
    /\ pc = "returned"
    /\ dirs = initial.dirs
    /\ files = initial.files
    /\ gen = "notcalled"
    /\ todo = <<>> /\ log = <<>>
    /\ install = "notrun"
    /\ error = "none"
    /\ printed = <<"Project creation cancelled.">>

\* a run cancelled when the target directory did not exist
C27_Witness ==
  /\ caller = "createProject"
  /\ outcome = "Cancelled"
  /\ ~TargetExisted
  /\ projectPath \notin dirs
  /\ selectedTemplate = "django-pro"

----------------------------------------------------------------------------
\* C29: when the install command fails, createProject still ends with
\* success and without an error, the generated tree is what generateProject
\* left, the warning is printed in place of 'Dependencies installed!', and
\* the success message follows it.
C29_InstallFailure ==
  install = "warned" =>
    /\ pc = "returned"
    /\ outcome = "Success"
    /\ error = "none"
    /\ gen = "done"
    /\ TreeUnder(files, projectPath) = TreeOfArguments
    /\ printed = <<"Could not install dependencies automatically.", "success">>

\* the install command of a React project has failed
C29_Witness ==
  /\ install = "warned"
  /\ selectedTemplate = "react-vite"
  /\ outcome = "Success"
  /\ InTarget(<<"package.json">>) \in DOMAIN files

----------------------------------------------------------------------------
\* C30: every catalog stack id is in at least one of the categories the
\* category prompt offers, and every id of an offered category is a key of
\* the catalog.
C30_CategoryCoverage ==
  pc = "idle" =>
    /\ \A id \in DOMAIN templates :
         \E c \in categoryChoices : Includes(categories[c], id)
    /\ templateChoices("category") \subseteq DOMAIN templates

----------------------------------------------------------------------------
\* the paths a sequence of requests writes
PathsWritten(requests) ==
  { requests[i].path : i \in { j \in DOMAIN requests : IsWrite(requests[j]) } }

\* the requests of the second run of the new command
SecondPlan ==
  generateProject(projectPath, second.selectedTemplate,
                  lookupTemplate(second.selectedTemplate), second.features)

\* the second run has passed the collision guard
SecondPassed == second # noSecond /\ second.pc \in {"ensureDir", "generating"}

\* C28 as stated: of two runs of createProject on the same target
\* directory at most one passes the existence check, so that the two never
\* both write into the directory.
C28_Original ==
  ~(gen # "notcalled" /\ SecondPassed)

\* C28: the existence check and the creation of the directory are two
\* steps and no lock is held between them.  A run passes the check exactly
\* when the directory does not exist at that moment, and a run that finds
\* it ends with 'already exists' without having written anything; both runs
\* pass when both checks come before either creation, and when both have
\* then completed the directory holds the files of both: every path either
\* run writes, and for a path only one of them writes the content that run
\* gave it.
C28_CheckThenCreate ==
  [][/\ (second # noSecond /\ second.pc = "pathExists" /\ second' # second) =>
          second'.pc = IF projectPath \in dirs THEN "returned" ELSE "ensureDir"
     /\ (pc = "pathExists" /\ pc' # pc) =>
          pc' = IF projectPath \in dirs THEN "returned" ELSE "ensureDir"
     /\ (second' # noSecond /\ second'.outcome = "TargetExists") =>
          second'.gen = "notcalled" /\ second'.todo = <<>>
     /\ outcome' = "TargetExists" => gen' = "notcalled" /\ log' = <<>>
     /\ (gen' = "done" /\ second'.gen = "done"
           /\ (gen # "done" \/ second.gen # "done")) =>
          LET first == generateProject(projectPath, selectedTemplate, templateConfig,
                                       features)
              other == SecondPlan
          IN  /\ DOMAIN files' = PathsWritten(first) \cup PathsWritten(other)
              /\ \A p \in PathsWritten(first) \ PathsWritten(other) :
                   files'[p] = filesAfterAll(NoFiles, first)[p]
              /\ \A p \in PathsWritten(other) \ PathsWritten(first) :
                   files'[p] = filesAfterAll(NoFiles, other)[p]
    ]_vars

\* both runs have completed in the one directory: a React project and a
\* Rust project in x
C28_Witness ==
  /\ gen = "done"
  /\ second # noSecond
  /\ second.gen = "done"
  /\ selectedTemplate = "react-vite"
  /\ second.selectedTemplate = "rust-axum"
  /\ InTarget(<<"package.json">>) \in DOMAIN files
  /\ InTarget(<<"Cargo.toml">>) \in DOMAIN files

====
